---- MODULE Spec2Model ----
(***************************************************************************)
(* AgentSwarm Arena: the per-cycle engine (src/src/arena/engine.ts, first  *)
(* ArenaEngine class of the file), the actors (src/src/agents/BaseAgent.ts *)
(* and its subclasses), the scam decision (ScammingBehavior.ts) and the    *)
(* x402 payment handshake (src/unnamed/part_011).                          *)
(*                                                                         *)
(* Node runs one macrotask at a time and drains the microtask queue after  *)
(* it.  A macrotask is an action guarded by micro = << >> (a timer firing, *)
(* a reply of the reasoning provider, an external call); the continuation  *)
(* of an `await` on an already settled promise is an entry of the FIFO     *)
(* queue micro and runs before any further macrotask.                      *)
(*                                                                         *)
(* Currency is real-valued in the program.  A balance is modelled as an    *)
(* integer count of the unit 1/(1000*Scale) SOL, where Scale makes every   *)
(* division done by redistributeBalance exact.                             *)
(***************************************************************************)
EXTENDS Integers, Sequences, FiniteSets, TLC

\* ---------------------------------------------------------------- bounds
NumAgents == 3
ReqPerTick == 1
MaxTicks == 2
MaxInFlight == 2
MaxUpdates == 2
MaxStarts == 2
MaxStops == 1
MaxDecisions == 5
NumOfType == 3
MaxServices == 2
MaxLen == 5
MaxPushes == 3
MaxAllianceEvents == 3
Precision == 11

\* ------------------------------------------------------------ arithmetic
RECURSIVE Gcd(_, _)
Gcd(a, b) == IF b = 0 THEN a ELSE Gcd(b, a % b)

RECURSIVE LcmUpTo(_)
LcmUpTo(n) == IF n <= 1 THEN 1 ELSE LET l == LcmUpTo(n - 1) IN (l * n) \div Gcd(l, n)

RECURSIVE Pow(_, _)
Pow(b, e) == IF e = 0 THEN 1 ELSE b * Pow(b, e - 1)

\* every residual is split by 2 and then by the number n < NumAgents of
\* recipients, at most once per actor
Scale == Pow(2 * LcmUpTo(NumAgents - 1), NumAgents)

\* x thousandths of a SOL
Milli(x) == x * Scale

RECURSIVE SumOver(_, _)
SumOver(S, f) ==
  IF S = {} THEN 0
  ELSE LET x == CHOOSE y \in S : TRUE IN f[x] + SumOver(S \ {x}, f)

Max(a, b) == IF a >= b THEN a ELSE b
Min(a, b) == IF a <= b THEN a ELSE b

SeqToSet(s) == {s[i] : i \in 1..Len(s)}

RECURSIVE SelectIdx(_, _, _)
\* the subsequence of s whose elements are in S (Array.prototype.filter)
SelectIdx(s, S, i) ==
  IF i > Len(s) THEN << >>
  ELSE IF s[i] \in S THEN <<s[i]>> \o SelectIdx(s, S, i + 1)
  ELSE SelectIdx(s, S, i + 1)

Filter(s, S) == SelectIdx(s, S, 1)

\* ------------------------------------------------------ program constants
SURVIVAL_THRESHOLD == Milli(100)
CRITICAL_THRESHOLD == Milli(10)
InitialBalance == Milli(1000)
DefaultBasePrice == Milli(50)
DefaultMinPrice == Milli(10)
DefaultMaxPrice == Milli(200)
SurvivalMinPrice == Milli(5)
RichBalance == Milli(3000)
InitialReputation == 50
ScamPenalty == 20
ValidityWindow == 30
LamportsPerMilli == 1000000
TransactionCap == 10000
TransactionKeep == 5000
AdaptationPeriod == 25
RequestsPerCycle == 12
StatsPeriod == 10
AllianceThreshold == 60
BetrayalThreshold == 40
SnapshotCap == 200
EventCap == 100
AI_FAIL_THRESHOLD == 3

\* the reputation above which the AI-weighted shouldScam never scams
HighTrustCeiling == 85

\* the first two entries of SERVICE_TYPES
Types == <<"trading", "research">>
TypeSet == SeqToSet(Types)

\* agent i of initialize(): SERVICE_TYPES[i % SERVICE_TYPES.length]
Agents == 0..(NumAgents - 1)
AgentType(i) == Types[(i % Len(Types)) + 1]

\* payment = 0.01 + Math.random() * 0.15
Payments == {Milli(20), Milli(80)}

\* Math.random() * 100, for the comparisons of shouldScam
RandomPct == {1, 60}

\* amounts of the external debits updateBalance(-x): all but 0.005 SOL of
\* the initial balance
DebitAmounts == {Milli(995)}

\* initialBalance of a BaseAgent built outside initialize()
InitialBalances == {Milli(5), Milli(50), InitialBalance}

\* Math.floor(Date.now() / 1000) at the calls of the x402 client
Times == {10, 25, 40, 41}

\* the arguments of updateReputation: the scam penalty and the increments
\* of the agent classes
ReputationDeltas == {0 - ScamPenalty, 0 - 1, 1, 3}

\* the reputations of an agent some services old
Reputations == {0, 10, 50, 90, 100}

\* seconds of wall clock between the two Date.now() reads of executePayment;
\* Date.now() is not monotonic
EngineClockSteps == {-1, 0}

VARIABLES
  running,          \* ArenaEngine.running
  tickInterval,     \* ArenaEngine.tickInterval is set (a timer handle)
  intervals,        \* number of live setInterval timers of the runtime
  tickCount,        \* ArenaEngine.tickCount
  agents,           \* ArenaEngine.agents: id -> BaseAgent.state
  reqs,             \* the ServiceRequest objects, by creation index
  serviceRequests,  \* ArenaEngine.serviceRequests: the array of requests
  transactions,     \* ArenaEngine.transactions
  payments,         \* X402Client.payments, in insertion order
  ticks,            \* the tick() invocations in flight
  waiting,          \* match callbacks suspended on the reasoning provider
  micro,            \* microtask queue: continuations ready to run
  emitted,          \* events emitted by the engine, counted per kind
  updates,          \* number of external calls of updateBalance so far
  startCalls,       \* number of calls of start() so far
  wire,             \* the PAYMENT-SIGNATURE in transit, << >> when none
  settlement,       \* what verifyAndSettle returned for it, << >> when none
  USE_KIMI,         \* BaseAgent.ts: the Kimi provider is configured
  USE_ANTHROPIC,    \* BaseAgent.ts: the Anthropic provider is configured
  DEMO_MODE,        \* BaseAgent.ts: the process-wide demo-mode switch
  aiFailCount,      \* BaseAgent.ts: the circuit breaker's failure counter
  chats,            \* calls of KimiClient.chat in flight, per agent
  calls,            \* what makeDecision has done so far, counted per kind
  cartels,          \* CartelBehavior.cartels: service type -> member ids
  cartelPrices,     \* CartelBehavior.cartelPrices: service type -> price
  negotiation,      \* the call of formCartel in flight or last returned
  giniCall,         \* a call of calculateGini: its argument and its result
  acceptCall,       \* a call of shouldAcceptRequest, in flight or returned
  reasoning,        \* the ReasoningEvents handed to reasoningCallback
  priceCall,        \* a call of calculatePrice: its arguments and its result
  adaptCall,        \* a call of adaptStrategy: the agent's state and its progress
  balanceHistory,   \* ArenaEngine.balanceHistory: the snapshots kept
  eventHistory,     \* BaseAgent.eventHistory of one agent
  logged,           \* transactions, snapshots and events pushed so far
  mirror,           \* the calls made to the SolanaLogger and their outcomes
  solanaTxSignature, \* BaseAgent.state.solanaTxSignature of each agent
  alliances,        \* BaseAgent.alliances of each agent
  statsCall,        \* a cycle's snapshot and the stats report that follows it
  serviceCall       \* a request to the x402 service endpoint and its response

breakerVars == <<USE_KIMI, USE_ANTHROPIC, DEMO_MODE, aiFailCount, chats, calls>>

cartelVars == <<cartels, cartelPrices, negotiation>>

\* the state of the parts modelled on their own
decideVars == <<acceptCall, reasoning>>

\* the calls modelled on their own, other than calculateGini
historyVars == <<balanceHistory, eventHistory, logged>>

mirrorVars == <<mirror, solanaTxSignature>>

sideVars == <<alliances, statsCall, serviceCall>>

callVars == <<decideVars, priceCall, adaptCall, historyVars, mirrorVars, sideVars>>

unitVars == <<breakerVars, cartelVars, giniCall, callVars>>

vars == <<running, tickInterval, intervals, tickCount, agents, reqs,
          serviceRequests, transactions, payments, ticks, waiting, micro,
          emitted, updates, startCalls, wire, settlement, unitVars>>

engineVars == <<running, tickInterval, intervals, tickCount, agents, reqs,
                serviceRequests, transactions, payments, ticks, waiting,
                micro, emitted, updates, startCalls>>

payVars == <<wire, settlement>>

TickSlots == 1..MaxInFlight

\* ---------------------------------------------------------------- actors
\* BaseAgent.updateStatus: the status of a balance
updateStatus(balance) ==
  IF balance <= CRITICAL_THRESHOLD THEN "dead"
  ELSE IF balance <= SURVIVAL_THRESHOLD THEN "critical"
  ELSE "alive"

\* BaseAgent.updateBalance
updateBalance(ag, amount) ==
  [ag EXCEPT !.balance = ag.balance + amount,
             !.earnings = IF amount > 0 THEN ag.earnings + amount ELSE ag.earnings,
             !.expenses = IF amount > 0 THEN ag.expenses ELSE ag.expenses - amount,
             !.status = updateStatus(ag.balance + amount)]

\* updateReputation without Math.max and Math.min
updateReputationUnclamped(ag, delta) ==
  [ag EXCEPT !.reputation = ag.reputation + delta]

\* BaseAgent.updateReputation
updateReputation(ag, delta) ==
  [ag EXCEPT !.reputation = Max(0, Min(100, ag.reputation + delta))]

\* BaseAgent.incrementServicesCompleted
incrementServicesCompleted(ag) ==
  [ag EXCEPT !.servicesCompleted = ag.servicesCompleted + 1]

\* BaseAgent.markDead: diedAt = Date.now(), a positive time
markDead(ag, now) == [ag EXCEPT !.diedAt = now]

\* BaseAgent constructor: the state of a new agent
BaseAgent(initialBalance) ==
  [balance |-> initialBalance,
   status |-> "alive",
   reputation |-> InitialReputation,
   servicesCompleted |-> 0,
   earnings |-> 0,
   expenses |-> 0,
   diedAt |-> 0,
   basePrice |-> DefaultBasePrice,
   minPrice |-> DefaultMinPrice]

\* the reputation rule of executeService, per agent class
ReputationDelta(type, ag, payment) ==
  IF type = "trading"
  THEN IF 2 * payment >= 3 * ag.basePrice THEN 2
       ELSE IF payment < ag.basePrice THEN 0 - 1
       ELSE 0
  ELSE 1

\* the state changes of executeService (TraderAgent, ResearchAgent), made
\* after the reasoning provider has answered
executeService(type, ag, payment) ==
  LET a1 == incrementServicesCompleted(ag)
      a2 == updateBalance(a1, payment)
  IN updateReputation(a2, ReputationDelta(type, a2, payment))

\* executeScam charging the payment to the agent instead of crediting it
executeScamCharged(ag, payment) ==
  incrementServicesCompleted(updateReputation(updateBalance(ag, 0 - payment), 0 - ScamPenalty))

\* ScammingBehavior.executeScam
executeScam(ag, payment) ==
  incrementServicesCompleted(updateReputation(updateBalance(ag, payment), 0 - ScamPenalty))

\* ScammingBehavior.shouldScam, u = Math.random() * 100
shouldScam(ag, u) ==
  IF ag.status = "critical" THEN u < 15
  ELSE IF ag.reputation < 30 THEN u < 10
  ELSE IF ag.reputation > 70 THEN u < 2
  ELSE u < 5

\* the fallback of shouldAcceptRequest: payment >= basePrice * 0.8
HeuristicAccept(ag, payment) == 10 * payment >= 8 * ag.basePrice

\* shouldAcceptRequest before its first await: "reject", "accept" (critical
\* status) or "ask" (the reasoning provider is called)
AcceptPrefix(ag, payment) ==
  IF ag.status = "dead" THEN "reject"
  ELSE IF payment < ag.minPrice THEN "reject"
  ELSE IF ag.status = "critical"
       THEN (IF payment >= ag.minPrice THEN "accept" ELSE "reject")
  ELSE "ask"

\* shouldAcceptRequest after the provider's answer: parsed.accept === true,
\* or the heuristic when the call failed or the answer holds no JSON
ProviderAnswers == {"accept", "reject", "unparsable", "failed"}
AcceptDecision(ag, payment, answer) ==
  IF answer = "accept" THEN TRUE
  ELSE IF answer = "reject" THEN FALSE
  ELSE HeuristicAccept(ag, payment)

\* ------------------------------------------------------------------ x402
\* Number.prototype.toString of an integer n >= 0: its decimal digits
RECURSIVE DecStr(_)
DecStr(n) == IF n < 10 THEN <<n>> ELSE DecStr(n \div 10) \o <<n % 10>>

\* a string of digits is the sequence of its digits; any other character
\* is a number above 9.  NaN is kept apart from every parsed value
NaN == 0 - 1

\* parseInt: the value of the longest prefix of digits, NaN without one
RECURSIVE DigitsValue(_, _, _)
DigitsValue(s, i, acc) ==
  IF i > Len(s) \/ s[i] \notin 0..9 THEN acc
  ELSE DigitsValue(s, i + 1, 10 * acc + s[i])

ParseInt(s) ==
  IF s = << >> \/ s[1] \notin 0..9 THEN NaN ELSE DigitsValue(s, 1, 0)

\* Math.floor(amount * 1_000_000_000): the lamports of an amount
Lamports(amount) ==
  LET r == amount % Scale
      q1 == (r * 1000) \div Scale
      r1 == (r * 1000) % Scale
  IN (amount \div Scale) * LamportsPerMilli + q1 * 1000 + (r1 * 1000) \div Scale

\* `${from}:${to}:${value}:${nonce}`: the four fields, none holding a ':'
PayloadOf(authorization) ==
  <<authorization.from, authorization.to, authorization.value, authorization.nonce>>

\* createHash('sha256').update(s).digest('hex'), collision free
Sha256(s) == [sha256 |-> s]

\* X402Client.createPaymentSignature, now = Math.floor(Date.now() / 1000)
createPaymentSignature(fromAgentId, toAgentId, amount, nonce, now) ==
  LET authorization ==
        [from |-> fromAgentId,
         to |-> toAgentId,
         value |-> DecStr(Lamports(amount)),
         validAfter |-> DecStr(now),
         validBefore |-> DecStr(now + ValidityWindow),
         nonce |-> nonce]
  IN [signature |-> Sha256(PayloadOf(authorization)),
      authorization |-> authorization]

\* verifyAndSettle without the test of validBefore
verifyAndSettleNoExpiry(paymentSignature, now) ==
  LET authorization == paymentSignature.authorization
      expectedSig == Sha256(PayloadOf(authorization))
      valid == expectedSig = paymentSignature.signature
      after == ParseInt(authorization.validAfter)
      isValid == valid /\ after # NaN /\ now >= after
  IN [valid |-> isValid,
      raw |-> [success |-> isValid, payerAddress |-> authorization.from]]

\* X402Client.verifyAndSettle, now = Math.floor(Date.now() / 1000)
verifyAndSettle(paymentSignature, now) ==
  LET authorization == paymentSignature.authorization
      expectedSig == Sha256(PayloadOf(authorization))
      valid == expectedSig = paymentSignature.signature
      after == ParseInt(authorization.validAfter)
      before == ParseInt(authorization.validBefore)
      timeValid == /\ after # NaN
                   /\ before # NaN
                   /\ now >= after
                   /\ now <= before
      isValid == valid /\ timeValid
  IN [valid |-> isValid,
      raw |-> [success |-> isValid, payerAddress |-> authorization.from]]

\* X402Client.executePayment: the X402Payment it stores and returns; the
\* clock reads now at signing and now + step at settlement
executePayment(fromAgentId, toAgentId, amount, nonce, now, step) ==
  LET signed == createPaymentSignature(fromAgentId, toAgentId, amount, nonce, now)
      settled == verifyAndSettle(signed, now + step)
  IN [from |-> fromAgentId,
      to |-> toAgentId,
      amount |-> amount,
      status |-> IF settled.valid THEN "completed" ELSE "failed"]

\* ---------------------------------------------------------------- engine
NoAgent == 0 - 1

\* a ServiceRequest of generateServiceRequests.  Two fields record its
\* history: credits, the number of times its payment was credited to an
\* actor, and settled, the status of the X402Payment made for it
NewRequest(serviceType, payment) ==
  [serviceType |-> serviceType,
   payment |-> payment,
   agentId |-> NoAgent,
   status |-> "pending",
   credits |-> 0,
   settled |-> "none"]

IdleTick == [pc |-> "idle", outstanding |-> 0]

\* matchRequests: the candidates of a request, in Map order
Candidates(ags, serviceType) ==
  {a \in Agents : AgentType(a) = serviceType /\ ags[a].status # "dead"}

\* candidates[0] without the sort by reputation
SelectedAgentUnsorted(ags, serviceType) ==
  LET c == Candidates(ags, serviceType)
  IN CHOOSE a \in c : \A b \in c : a <= b

\* candidates.sort((a, b) => b.reputation - a.reputation)[0]; the sort is
\* stable, so the first of the best in Map order
SelectedAgent(ags, serviceType) ==
  LET c == Candidates(ags, serviceType)
      best == {a \in c : \A b \in c : ags[b].reputation <= ags[a].reputation}
  IN CHOOSE a \in best : \A b \in best : a <= b

\* one callback of Promise.all has settled; the last one resumes tick()
Settle1(tk, k, mq) ==
  LET n == tk[k].outstanding - 1
  IN [ticks |-> [tk EXCEPT ![k].outstanding = n],
      micro |-> IF n = 0 THEN Append(mq, [kind |-> "post", tick |-> k]) ELSE mq]

\* start() without `if (this.running) return`
StartAgain ==
  /\ micro = << >>
  /\ startCalls < MaxStarts
  /\ startCalls' = startCalls + 1
  /\ running' = TRUE
  /\ tickInterval' = TRUE
  /\ intervals' = intervals + 1
  /\ emitted' = [emitted EXCEPT !.started = @ + 1]
  /\ UNCHANGED <<tickCount, agents, reqs, serviceRequests, transactions,
                 payments, ticks, waiting, micro, updates, wire, settlement, unitVars>>

\* start()
Start ==
  /\ micro = << >>
  /\ startCalls < MaxStarts
  /\ startCalls' = startCalls + 1
  /\ IF running
     THEN UNCHANGED <<running, tickInterval, intervals, emitted>>
     ELSE /\ running' = TRUE
          /\ tickInterval' = TRUE
          /\ intervals' = intervals + 1
          /\ emitted' = [emitted EXCEPT !.started = @ + 1]
  /\ UNCHANGED <<tickCount, agents, reqs, serviceRequests, transactions,
                 payments, ticks, waiting, micro, updates, wire, settlement, unitVars>>

\* stop() that also drops the work of the cycles in execution
StopAborting ==
  /\ micro = << >>
  /\ emitted.stopped < MaxStops
  /\ running' = FALSE
  /\ tickInterval' = FALSE
  /\ intervals' = IF tickInterval THEN intervals - 1 ELSE intervals
  /\ emitted' = [emitted EXCEPT !.stopped = @ + 1, !.statsAtStop = emitted.stats]
  /\ waiting' = {}
  /\ UNCHANGED <<tickCount, agents, reqs, serviceRequests, transactions,
                 payments, ticks, micro, updates, startCalls, wire,
                 settlement, unitVars>>

\* stop()
Stop ==
  /\ micro = << >>
  /\ emitted.stopped < MaxStops
  /\ running' = FALSE
  /\ tickInterval' = FALSE
  /\ intervals' = IF tickInterval THEN intervals - 1 ELSE intervals
  /\ emitted' = [emitted EXCEPT !.stopped = @ + 1, !.statsAtStop = emitted.stats]
  /\ UNCHANGED <<tickCount, agents, reqs, serviceRequests, transactions,
                 payments, ticks, waiting, micro, updates, startCalls, wire,
                 settlement, unitVars>>

\* the setInterval callback: tick() up to `await generateServiceRequests`
TimerFire ==
  /\ micro = << >>
  /\ intervals > 0
  /\ tickCount < MaxTicks
  /\ \E k \in TickSlots :
       /\ ticks[k].pc = "idle"
       /\ \A j \in TickSlots : ticks[j].pc = "idle" => k <= j
       /\ \E gen \in [1..ReqPerTick -> TypeSet \X Payments] :
            LET new == [i \in 1..ReqPerTick |-> NewRequest(gen[i][1], gen[i][2])]
                ids == [i \in 1..ReqPerTick |-> Len(reqs) + i]
            IN /\ tickCount' = tickCount + 1
               /\ reqs' = reqs \o new
               /\ serviceRequests' = serviceRequests \o ids
               /\ ticks' = [ticks EXCEPT ![k] = [pc |-> "generated", outstanding |-> 0]]
               /\ micro' = Append(micro, [kind |-> "match", tick |-> k])
  /\ UNCHANGED <<running, tickInterval, intervals, agents, transactions,
                 payments, waiting, emitted, updates, startCalls, wire, settlement, unitVars>>

\* matchRequests up to the first await of every callback of Promise.all
MatchRequests ==
  /\ micro # << >>
  /\ Head(micro).kind = "match"
  /\ LET k == Head(micro).tick
         pendingRequests ==
           Filter(serviceRequests, {r \in 1..Len(reqs) : reqs[r].status = "pending"})
         matched == {i \in 1..Len(pendingRequests) :
                       Candidates(agents, reqs[pendingRequests[i]].serviceType) # {}}
         sel(i) == SelectedAgent(agents, reqs[pendingRequests[i]].serviceType)
         pre(i) == AcceptPrefix(agents[sel(i)], reqs[pendingRequests[i]].payment)
         asked == {i \in matched : pre(i) = "ask"}
         now == Filter([i \in 1..Len(pendingRequests) |-> i], matched \ asked)
         conts == [j \in 1..Len(now) |->
                     [kind |-> "decided", tick |-> k, req |-> pendingRequests[now[j]],
                      agent |-> sel(now[j]), accept |-> pre(now[j]) = "accept"]]
     IN /\ waiting' = waiting \cup
                        {[tick |-> k, req |-> pendingRequests[i], agent |-> sel(i),
                          pc |-> "accept"] : i \in asked}
        /\ ticks' = [ticks EXCEPT ![k] = [pc |-> "matching",
                                          outstanding |-> Cardinality(matched)]]
        /\ micro' = IF matched = {}
                    THEN Append(Tail(micro), [kind |-> "post", tick |-> k])
                    ELSE Tail(micro) \o conts
  /\ UNCHANGED <<running, tickInterval, intervals, tickCount, agents, reqs,
                 serviceRequests, transactions, payments, emitted, updates,
                 startCalls, wire, settlement, unitVars>>

\* the reasoning provider answers a shouldAcceptRequest call
AcceptReply ==
  /\ micro = << >>
  /\ \E w \in waiting : \E answer \in ProviderAnswers :
       /\ w.pc = "accept"
       /\ waiting' = waiting \ {w}
       /\ micro' = Append(micro,
            [kind |-> "decided", tick |-> w.tick, req |-> w.req, agent |-> w.agent,
             accept |-> AcceptDecision(agents[w.agent], reqs[w.req].payment, answer)])
  /\ UNCHANGED <<running, tickInterval, intervals, tickCount, agents, reqs,
                 serviceRequests, transactions, payments, ticks, emitted,
                 updates, startCalls, wire, settlement, unitVars>>

\* the callback of matchRequests after `await shouldAcceptRequest`
Decided ==
  /\ micro # << >>
  /\ Head(micro).kind = "decided"
  /\ LET c == Head(micro)
         r == c.req
         a == c.agent
     IN IF ~c.accept
        THEN LET s == Settle1(ticks, c.tick, Tail(micro))
             IN /\ ticks' = s.ticks
                /\ micro' = s.micro
                /\ UNCHANGED <<agents, reqs, waiting>>
        ELSE \E u \in RandomPct :
               /\ reqs' = [reqs EXCEPT ![r].agentId = a,
                                       ![r].status = "in_progress",
                                       ![r].credits =
                                         IF shouldScam(agents[a], u) THEN @ + 1 ELSE @]
               /\ IF shouldScam(agents[a], u)
                  THEN /\ agents' = [agents EXCEPT
                                       ![a] = executeScam(agents[a], reqs[r].payment)]
                       /\ micro' = Append(Tail(micro),
                            [kind |-> "completed", tick |-> c.tick, req |-> r,
                             agent |-> a, scam |-> TRUE])
                       /\ UNCHANGED waiting
                  ELSE /\ waiting' = waiting \cup
                            {[tick |-> c.tick, req |-> r, agent |-> a, pc |-> "exec"]}
                       /\ micro' = Tail(micro)
                       /\ UNCHANGED agents
               /\ UNCHANGED ticks
  /\ UNCHANGED <<running, tickInterval, intervals, tickCount, serviceRequests,
                 transactions, payments, emitted, updates, startCalls, wire, settlement, unitVars>>

\* the reasoning provider answers (or fails) the call of executeService,
\* which then credits the agent and returns
ExecReply ==
  /\ micro = << >>
  /\ \E w \in waiting :
       /\ w.pc = "exec"
       /\ waiting' = waiting \ {w}
       /\ agents' = [agents EXCEPT ![w.agent] =
            executeService(AgentType(w.agent), agents[w.agent], reqs[w.req].payment)]
       /\ reqs' = [reqs EXCEPT ![w.req].credits = @ + 1]
       /\ micro' = Append(micro,
            [kind |-> "completed", tick |-> w.tick, req |-> w.req,
             agent |-> w.agent, scam |-> FALSE])
  /\ UNCHANGED <<running, tickInterval, intervals, tickCount, serviceRequests,
                 transactions, payments, ticks, emitted, updates, startCalls, wire, settlement, unitVars>>

\* the callback of matchRequests after `await executeService/executeScam`
Completed ==
  /\ micro # << >>
  /\ Head(micro).kind = "completed"
  /\ LET c == Head(micro)
         r == c.req
         s == Settle1(ticks, c.tick, Tail(micro))
     IN \E step \in EngineClockSteps :
          LET x402Payment ==
                executePayment("client", reqs[r].agentId, reqs[r].payment, "nonce",
                               tickCount, step)
              tx == [request |-> r,
                     to |-> reqs[r].agentId,
                     serviceType |-> reqs[r].serviceType,
                     amount |-> reqs[r].payment,
                     x402PaymentId |-> Len(payments) + 1]
          IN /\ reqs' = [reqs EXCEPT ![r].status = "completed",
                                    ![r].settled = x402Payment.status]
             /\ payments' = Append(payments, x402Payment)
             /\ transactions' = Append(transactions, tx)
             /\ emitted' = [emitted EXCEPT
                              !.scamDetected = IF c.scam THEN @ + 1 ELSE @,
                              !.transaction = @ + 1]
             /\ ticks' = s.ticks
             /\ micro' = s.micro
  /\ UNCHANGED <<running, tickInterval, intervals, tickCount, agents,
                 serviceRequests, waiting, updates, startCalls, wire, settlement, unitVars>>

\* the reasoning provider rejects the call that executeService awaits
\* (`await this.anthropic.messages.create` in makeDecision has no catch):
\* every subclass awaits makeDecision before it credits the agent, so
\* executeService throws with the agent's state untouched
ExecFails ==
  /\ micro = << >>
  /\ \E w \in waiting :
       /\ w.pc = "exec"
       /\ waiting' = waiting \ {w}
       /\ micro' = Append(micro,
            [kind |-> "failed", tick |-> w.tick, req |-> w.req, agent |-> w.agent])
  /\ UNCHANGED <<running, tickInterval, intervals, tickCount, agents, reqs,
                 serviceRequests, transactions, payments, ticks, emitted,
                 updates, startCalls, wire, settlement, unitVars>>

\* the catch clause of matchRequests
Failed ==
  /\ micro # << >>
  /\ Head(micro).kind = "failed"
  /\ LET c == Head(micro)
         s == Settle1(ticks, c.tick, Tail(micro))
     IN /\ reqs' = [reqs EXCEPT ![c.req].status = "failed"]
        /\ emitted' = [emitted EXCEPT !.serviceFailed = @ + 1]
        /\ ticks' = s.ticks
        /\ micro' = s.micro
  /\ UNCHANGED <<running, tickInterval, intervals, tickCount, agents,
                 serviceRequests, transactions, payments, waiting, updates,
                 startCalls, wire, settlement, unitVars>>

\* redistributeBalance: the recipients, agents of status 'alive'
AliveOthers(ags, deadAgentId) ==
  {a \in Agents : ags[a].status = "alive" /\ a # deadAgentId}

\* redistributeBalance with the second half handed whole to every recipient
redistributeBalanceUndivided(ags, deadAgentId, balance, randomAgent) ==
  LET aliveAgents == AliveOthers(ags, deadAgentId)
      halfBalance == balance \div 2
      ags1 == [ags EXCEPT ![randomAgent] = updateBalance(ags[randomAgent], halfBalance)]
  IN IF balance <= 0 \/ aliveAgents = {} THEN ags
     ELSE [a \in Agents |->
             IF a \in aliveAgents THEN updateBalance(ags1[a], halfBalance) ELSE ags1[a]]

\* redistributeBalance without the first half for the random recipient
redistributeBalanceNoBonus(ags, deadAgentId, balance, randomAgent) ==
  LET aliveAgents == AliveOthers(ags, deadAgentId)
      halfBalance == balance \div 2
      perAgent == halfBalance \div Cardinality(aliveAgents)
  IN IF balance <= 0 \/ aliveAgents = {} THEN ags
     ELSE [a \in Agents |->
             IF a \in aliveAgents THEN updateBalance(ags[a], perAgent) ELSE ags[a]]

\* redistributeBalance(deadAgentId, balance); randomAgent is
\* aliveAgents[Math.floor(Math.random() * aliveAgents.length)]
redistributeBalance(ags, deadAgentId, balance, randomAgent) ==
  LET aliveAgents == AliveOthers(ags, deadAgentId)
      halfBalance == balance \div 2
      perAgent == halfBalance \div Cardinality(aliveAgents)
      ags1 == [ags EXCEPT ![randomAgent] = updateBalance(ags[randomAgent], halfBalance)]
  IN IF balance <= 0 \/ aliveAgents = {} THEN ags
     ELSE [a \in Agents |->
             IF a \in aliveAgents THEN updateBalance(ags1[a], perAgent) ELSE ags1[a]]

\* whether redistributeBalance emits 'balance-redistributed'
Redistributes(ags, deadAgentId, balance) ==
  balance > 0 /\ AliveOthers(ags, deadAgentId) # {}

\* the condition of processDeaths without the test of diedAt
ToFinalizeAnyDead(ag) == ag.status = "dead"

\* the condition of processDeaths: status 'dead' and no diedAt yet
ToFinalize(ag) == ag.status = "dead" /\ ag.diedAt = 0

\* processDeaths from agent i on, in Map order; pick[a] is the random
\* recipient drawn when a is finalized, now is Date.now()
RECURSIVE processDeathsFrom(_, _, _, _, _)
processDeathsFrom(i, ags, em, pick, now) ==
  IF i >= NumAgents THEN [agents |-> ags, emitted |-> em]
  ELSE IF ToFinalize(ags[i])
  THEN LET marked == [ags EXCEPT ![i] = markDead(ags[i], now)]
           after == redistributeBalance(marked, i, marked[i].balance, pick[i])
           em1 == [em EXCEPT
                     !.balanceRedistributed[i] =
                        IF Redistributes(marked, i, marked[i].balance) THEN @ + 1 ELSE @,
                     !.agentDied[i] = @ + 1]
       IN processDeathsFrom(i + 1, after, em1, pick, now)
  ELSE processDeathsFrom(i + 1, ags, em, pick, now)

processDeaths(ags, em, pick, now) == processDeathsFrom(0, ags, em, pick, now)

\* the draws of Math.random() in one processDeaths: a recipient for every
\* agent it finalizes with something to hand out
DeathPicks(ags) ==
  LET dying == {a \in Agents : ToFinalize(ags[a])}
  IN {pick \in [dying -> Agents] :
        \A d \in dying :
          IF Redistributes(ags, d, ags[d].balance)
          THEN pick[d] \in AliveOthers(ags, d)
          ELSE pick[d] = d}

\* tick(): the cap of the transaction history
CapTransactions(txs) ==
  IF Len(txs) > TransactionCap
  THEN SubSeq(txs, Len(txs) - TransactionKeep + 1, Len(txs))
  ELSE txs

\* tick() after `await matchRequests()`: the clean-up of the request array
\* and processDeaths; then either `await agentAdaptation()`, which finds no
\* agent with more than 5 services and returns, or the rest of tick() at once
PostMatch ==
  /\ micro # << >>
  /\ Head(micro).kind = "post"
  /\ LET k == Head(micro).tick
     IN /\ serviceRequests' =
             Filter(serviceRequests,
                    {r \in 1..Len(reqs) : reqs[r].status \in {"pending", "in_progress"}})
        /\ \E pick \in DeathPicks(agents) :
             LET d == processDeaths(agents, emitted, pick, tickCount)
                 adapts == Len(transactions) % AdaptationPeriod = 0
             IN /\ agents' = d.agents
                /\ emitted' = [d.emitted EXCEPT
                                 !.deathScans = @ + 1,
                                 !.stats = IF adapts THEN @ ELSE @ + 1]
                /\ ticks' = [ticks EXCEPT
                               ![k] = IF adapts THEN [@ EXCEPT !.pc = "adapting"]
                                      ELSE IdleTick]
                /\ micro' = IF adapts
                            THEN Append(Tail(micro), [kind |-> "finish", tick |-> k])
                            ELSE Tail(micro)
                /\ transactions' = IF adapts THEN transactions
                                   ELSE CapTransactions(transactions)
  /\ UNCHANGED <<running, tickInterval, intervals, tickCount, reqs,
                 payments, waiting, updates, startCalls, wire, settlement, unitVars>>

\* the end of tick() after `await agentAdaptation()`: the cap of the
\* transaction history and emitStats
FinishTick ==
  /\ micro # << >>
  /\ Head(micro).kind = "finish"
  /\ LET k == Head(micro).tick
     IN /\ transactions' = CapTransactions(transactions)
        /\ emitted' = [emitted EXCEPT !.stats = @ + 1]
        /\ ticks' = [ticks EXCEPT ![k] = IdleTick]
        /\ micro' = Tail(micro)
  /\ UNCHANGED <<running, tickInterval, intervals, tickCount, agents, reqs,
                 serviceRequests, payments, waiting, updates, startCalls, wire, settlement, unitVars>>

\* an external debit of an agent obtained with getAgent(id):
\* updateBalance(-amount)
Debit ==
  /\ micro = << >>
  /\ updates < MaxUpdates
  /\ \E a \in DOMAIN agents : \E amount \in DebitAmounts :
       agents' = [agents EXCEPT ![a] = updateBalance(agents[a], 0 - amount)]
  /\ updates' = updates + 1
  /\ UNCHANGED <<running, tickInterval, intervals, tickCount, reqs,
                 serviceRequests, transactions, payments, ticks, waiting, micro,
                 emitted, startCalls, wire, settlement, unitVars>>

\* ----------------------------------- the breaker of the reasoning provider
\* the callers of makeDecision: shouldAcceptRequest, the executeService of
\* the agent classes, formCartel and adaptStrategy call it whatever
\* DEMO_MODE is; the executeService of BaseAgent calls it `if (!DEMO_MODE)`
Callers == {"shouldAcceptRequest", "BaseAgent.executeService"}

\* what makeDecision has done: decisions asked of it (made), calls of
\* KimiClient.chat (kimi), those made while DEMO_MODE was set (inDemoMode),
\* chats resolved and rejected, calls of the Anthropic client, decisions
\* left to the heuristics, decisions not asked because of DEMO_MODE
\* (skipped), the rejections since the last resolved chat (streak) and the
\* longest such run so far (maxStreak)
NoCalls ==
  [made |-> 0, kimi |-> 0, inDemoMode |-> 0, resolved |-> 0, rejected |-> 0,
   anthropic |-> 0, heuristic |-> 0, skipped |-> 0, streak |-> 0,
   maxStreak |-> 0]

\* makeDecision after a resolved chat, without `aiFailCount = 0`
chatResolvedNoReset(b) == b

\* makeDecision after `await this.kimi.chat(...)` resolved
chatResolved(b) == [b EXCEPT !.aiFailCount = 0]

\* makeDecision, the catch of the Kimi branch
chatRejected(b) ==
  LET n == b.aiFailCount + 1
  IN [aiFailCount |-> n,
      DEMO_MODE |-> IF n >= AI_FAIL_THRESHOLD THEN TRUE ELSE b.DEMO_MODE]

\* an agent asks for a decision: makeDecision up to its first await
MakeDecision ==
  /\ calls.made < MaxDecisions
  /\ \E a \in Agents : \E caller \in Callers :
       IF caller = "BaseAgent.executeService" /\ DEMO_MODE
       THEN /\ calls' = [calls EXCEPT !.made = @ + 1, !.skipped = @ + 1]
            /\ UNCHANGED chats
       ELSE IF USE_KIMI
       THEN /\ chats' = [chats EXCEPT ![a] = @ + 1]
            /\ calls' = [calls EXCEPT !.made = @ + 1,
                                      !.kimi = @ + 1,
                                      !.inDemoMode = IF DEMO_MODE THEN @ + 1 ELSE @]
       ELSE IF USE_ANTHROPIC
       THEN /\ calls' = [calls EXCEPT !.made = @ + 1, !.anthropic = @ + 1]
            /\ UNCHANGED chats
       ELSE /\ calls' = [calls EXCEPT !.made = @ + 1, !.heuristic = @ + 1]
            /\ UNCHANGED chats
  /\ UNCHANGED <<USE_KIMI, USE_ANTHROPIC, DEMO_MODE, aiFailCount>>
  /\ UNCHANGED <<engineVars, payVars, cartelVars, giniCall, callVars>>

\* a call of KimiClient.chat resolves: makeDecision returns the response
ChatResolves ==
  /\ \E a \in Agents :
       /\ chats[a] > 0
       /\ chats' = [chats EXCEPT ![a] = @ - 1]
  /\ LET b == chatResolved([aiFailCount |-> aiFailCount, DEMO_MODE |-> DEMO_MODE])
     IN /\ aiFailCount' = b.aiFailCount
        /\ DEMO_MODE' = b.DEMO_MODE
  /\ calls' = [calls EXCEPT !.resolved = @ + 1, !.streak = 0]
  /\ UNCHANGED <<USE_KIMI, USE_ANTHROPIC>>
  /\ UNCHANGED <<engineVars, payVars, cartelVars, giniCall, callVars>>

\* a call of KimiClient.chat rejects (all keys failed or timed out):
\* makeDecision counts the failure and answers by its heuristics
ChatRejects ==
  /\ \E a \in Agents :
       /\ chats[a] > 0
       /\ chats' = [chats EXCEPT ![a] = @ - 1]
  /\ LET b == chatRejected([aiFailCount |-> aiFailCount, DEMO_MODE |-> DEMO_MODE])
     IN /\ aiFailCount' = b.aiFailCount
        /\ DEMO_MODE' = b.DEMO_MODE
  /\ calls' = [calls EXCEPT !.rejected = @ + 1,
                            !.heuristic = @ + 1,
                            !.streak = @ + 1,
                            !.maxStreak = Max(@, calls.streak + 1)]
  /\ UNCHANGED <<USE_KIMI, USE_ANTHROPIC>>
  /\ UNCHANGED <<engineVars, payVars, cartelVars, giniCall, callVars>>

\* ---------------------------------------- shouldAcceptRequest, call by call
\* payments offered: below the minimum price, below 0.8 * basePrice, above
DecidePayments == {Milli(5), Milli(20), Milli(80)}

\* what KimiClient.chat or the Anthropic client resolves with, as
\* shouldAcceptRequest reads it: JSON with accept true, JSON with accept
\* false, or text in which no JSON object is found (or JSON.parse throws)
Responses == {"accept", "reject", "unparsable"}

\* the JSON that makeDecision's own heuristic returns for the prompt
\* 'Should you accept'
makeDecisionHeuristic(ag, payment) ==
  IF HeuristicAccept(ag, payment) THEN "accept" ELSE "reject"

\* the ReasoningEvent of emitReasoning, as far as the decision goes: the
\* decision label and whether factors and rationale carry the word
\* heuristic ('Mode: heuristic ...', '... (heuristic)')
ReasoningEvent(decision, heuristicTag) ==
  [decision |-> decision, heuristicTag |-> heuristicTag]

\* shouldAcceptRequest once makeDecision has returned response: the record
\* it emits and what it returns.  by says who computed the response, the
\* provider or makeDecision's heuristic
AfterMakeDecision(call, response, by) ==
  IF response \in {"accept", "reject"}
  THEN [call EXCEPT !.pc = "returned",
                    !.result = (response = "accept"),
                    !.by = by,
                    !.response = response,
                    !.events = <<ReasoningEvent(
                                   IF response = "accept" THEN "Accept request"
                                   ELSE "Reject request", FALSE)>>]
  ELSE LET accept == HeuristicAccept(call.ag, call.payment)
       IN [call EXCEPT !.pc = "returned",
                       !.result = accept,
                       !.by = "heuristic",
                       !.response = response,
                       !.events = <<ReasoningEvent(
                                      IF accept THEN "Accept request"
                                      ELSE "Reject request", TRUE)>>]

\* shouldAcceptRequest after makeDecision threw: the catch, then the
\* heuristic fallback
AfterMakeDecisionThrew(call) ==
  LET accept == HeuristicAccept(call.ag, call.payment)
  IN [call EXCEPT !.pc = "returned",
                  !.result = accept,
                  !.by = "heuristic",
                  !.response = "threw",
                  !.events = <<ReasoningEvent(
                                 IF accept THEN "Accept request"
                                 ELSE "Reject request", TRUE)>>]

\* an agent is asked whether it accepts a request: shouldAcceptRequest up
\* to its first await, or to its return when it does not get that far
ShouldAcceptRequest ==
  /\ calls.made < MaxDecisions
  /\ IF acceptCall = << >> THEN TRUE ELSE acceptCall[1].pc = "returned"
  /\ \E a \in DOMAIN agents : \E payment \in DecidePayments :
       LET ag == agents[a]
           prefix == AcceptPrefix(ag, payment)
           call == [ag |-> ag, payment |-> payment, pc |-> "returned",
                    result |-> FALSE, by |-> "prefix", response |-> "none",
                    events |-> << >>]
       IN /\ calls' = [calls EXCEPT !.made = @ + 1]
          /\ IF prefix = "reject"
             THEN acceptCall' = <<call>>
             ELSE IF prefix = "accept"
             THEN acceptCall' =
                    <<[call EXCEPT !.result = TRUE,
                                   !.events = <<ReasoningEvent(
                                                  "Accept request (critical)", FALSE)>>]>>
             ELSE IF USE_KIMI THEN acceptCall' = <<[call EXCEPT !.pc = "kimi"]>>
             ELSE IF USE_ANTHROPIC THEN acceptCall' = <<[call EXCEPT !.pc = "anthropic"]>>
             ELSE acceptCall' =
                    <<AfterMakeDecision(call, makeDecisionHeuristic(ag, payment),
                                        "heuristic")>>
  /\ reasoning' = reasoning \o acceptCall'[1].events
  /\ UNCHANGED <<USE_KIMI, USE_ANTHROPIC, DEMO_MODE, aiFailCount, chats>>
  /\ UNCHANGED <<engineVars, payVars, cartelVars, giniCall, priceCall, adaptCall,
                 historyVars, mirrorVars, sideVars>>

\* KimiClient.chat resolves with a response: makeDecision resets the
\* failure counter and returns it, shouldAcceptRequest goes on
KimiResponds ==
  /\ acceptCall # << >>
  /\ acceptCall[1].pc = "kimi"
  /\ \E response \in Responses :
       acceptCall' = <<AfterMakeDecision(acceptCall[1], response, "provider")>>
  /\ reasoning' = reasoning \o acceptCall'[1].events
  /\ LET b == chatResolved([aiFailCount |-> aiFailCount, DEMO_MODE |-> DEMO_MODE])
     IN /\ aiFailCount' = b.aiFailCount
        /\ DEMO_MODE' = b.DEMO_MODE
  /\ UNCHANGED <<USE_KIMI, USE_ANTHROPIC, chats, calls>>
  /\ UNCHANGED <<engineVars, payVars, cartelVars, giniCall, priceCall, adaptCall,
                 historyVars, mirrorVars, sideVars>>

\* KimiClient.chat rejects (error or timeout): makeDecision counts the
\* failure in its catch, USE_ANTHROPIC is false, so it returns the JSON of
\* its own heuristic, and shouldAcceptRequest goes on with that
KimiFails ==
  /\ acceptCall # << >>
  /\ acceptCall[1].pc = "kimi"
  /\ acceptCall' =
       <<AfterMakeDecision(acceptCall[1],
                           makeDecisionHeuristic(acceptCall[1].ag, acceptCall[1].payment),
                           "heuristic")>>
  /\ reasoning' = reasoning \o acceptCall'[1].events
  /\ LET b == chatRejected([aiFailCount |-> aiFailCount, DEMO_MODE |-> DEMO_MODE])
     IN /\ aiFailCount' = b.aiFailCount
        /\ DEMO_MODE' = b.DEMO_MODE
  /\ UNCHANGED <<USE_KIMI, USE_ANTHROPIC, chats, calls>>
  /\ UNCHANGED <<engineVars, payVars, cartelVars, giniCall, priceCall, adaptCall,
                 historyVars, mirrorVars, sideVars>>

\* anthropic.messages.create resolves: makeDecision returns the text
AnthropicResponds ==
  /\ acceptCall # << >>
  /\ acceptCall[1].pc = "anthropic"
  /\ \E response \in Responses :
       acceptCall' = <<AfterMakeDecision(acceptCall[1], response, "provider")>>
  /\ reasoning' = reasoning \o acceptCall'[1].events
  /\ UNCHANGED breakerVars
  /\ UNCHANGED <<engineVars, payVars, cartelVars, giniCall, priceCall, adaptCall,
                 historyVars, mirrorVars, sideVars>>

\* anthropic.messages.create rejects: makeDecision has no try around it and
\* throws
AnthropicFails ==
  /\ acceptCall # << >>
  /\ acceptCall[1].pc = "anthropic"
  /\ acceptCall' = <<AfterMakeDecisionThrew(acceptCall[1])>>
  /\ reasoning' = reasoning \o acceptCall'[1].events
  /\ UNCHANGED breakerVars
  /\ UNCHANGED <<engineVars, payVars, cartelVars, giniCall, priceCall, adaptCall,
                 historyVars, mirrorVars, sideVars>>

\* ---------------------------------------------------------------- cartels
\* an exact fraction num / den in lowest terms, for the prices that
\* formCartel computes
Rat(num, den) == [num |-> num \div Gcd(num, den), den |-> den \div Gcd(num, den)]
RatEq(x, y) == x.num * y.den = y.num * x.den

\* the elements of a set of agent ids in Map order (the order of creation)
RECURSIVE InOrder(_)
InOrder(S) ==
  IF S = {} THEN << >>
  ELSE LET m == CHOOSE x \in S : \A y \in S : x <= y
       IN <<m>> \o InOrder(S \ {m})

\* the registries without an entry: a service type that is not a key of the
\* Map has the members {} and the price << >>
NoCartels == [t \in TypeSet |-> {}]
NoPrices == [t \in TypeSet |-> << >>]

\* the keys of CartelBehavior.cartels
Registered(registry) == {t \in TypeSet : registry[t] # {}}

\* CartelBehavior.canFormCartel
canFormCartel(ags, registry, serviceType) ==
  IF Cardinality(registry[serviceType]) >= 3
  THEN FALSE
  ELSE Cardinality({a \in DOMAIN ags :
                      AgentType(a) = serviceType /\ ags[a].status = "alive"}) >= 3

\* attemptCartelFormation: the average amount of the last ten transactions
\* of the service type, 0.08 SOL when there is none
RecentAverage(txs, serviceType) ==
  LET ofType == Filter([i \in 1..Len(txs) |-> i],
                       {i \in 1..Len(txs) : txs[i].serviceType = serviceType})
      recentTxs == SubSeq(ofType, Max(1, Len(ofType) - 9), Len(ofType))
      amounts == [i \in 1..Len(recentTxs) |-> txs[recentTxs[i]].amount]
  IN IF Len(recentTxs) > 0
     THEN Rat(SumOver(1..Len(recentTxs), amounts), Len(recentTxs))
     ELSE Rat(Milli(80), 1)

\* attemptCartelFormation: `cartelPrice = avgPrice * 1.3`, the marketPrice
\* it passes to formCartel
PassedMarketPrice(txs, serviceType) ==
  LET avgPrice == RecentAverage(txs, serviceType)
  IN Rat(avgPrice.num * 13, avgPrice.den * 10)

\* formCartel: the agents asked, at most six
Eligible(ags, serviceType) ==
  LET agentsOfType == {a \in DOMAIN ags :
                         /\ AgentType(a) = serviceType
                         /\ ags[a].status = "alive"
                         /\ ags[a].reputation > 50}
      inOrder == InOrder(agentsOfType)
  IN IF Cardinality(agentsOfType) < 3 THEN << >>
     ELSE SubSeq(inOrder, 1, Min(6, Len(inOrder)))

\* what an asked agent's makeDecision gives formCartel: a JSON answer with
\* `join` and `proposed_price_multiplier` (in hundredths, 0 when absent), a
\* text without JSON, or an exception
RawMultipliers == {0, 120, 140, 250}
CartelAnswers ==
  [kind : {"json"}, join : BOOLEAN, multiplier : RawMultipliers]
    \cup {[kind |-> "text", join |-> FALSE, multiplier |-> 0],
          [kind |-> "throws", join |-> FALSE, multiplier |-> 0]}

\* the draws of `1.2 + Math.random() * 0.2` in the catch, in hundredths
HeuristicMultipliers == {120, 139}

\* formCartel: the entries pushed to negotiations for one asked agent
Negotiated(ag, a, answer, drawn) ==
  IF answer.kind = "json"
  THEN <<[agentId |-> a,
          join |-> answer.join,
          proposedMultiplier |->
            Max(100, Min(200, IF answer.multiplier = 0 THEN 130
                              ELSE answer.multiplier))]>>
  ELSE IF answer.kind = "throws"
  THEN LET shouldJoin == ag.reputation > 60 /\ ag.balance > Milli(300)
       IN <<[agentId |-> a,
             join |-> shouldJoin,
             proposedMultiplier |-> IF shouldJoin THEN drawn ELSE 100]>>
  ELSE << >>

\* formCartel after its loop: the joiners, and the price they agreed
Joiners(negotiations) ==
  {i \in 1..Len(negotiations) : negotiations[i].join}

ConsensusPrice(marketPrice, negotiations) ==
  LET joiners == Joiners(negotiations)
      sum == SumOver(joiners, [i \in joiners |-> negotiations[i].proposedMultiplier])
  IN Rat(marketPrice.num * sum, marketPrice.den * Cardinality(joiners) * 100)

\* CartelBehavior.maintainCartels, one service type after the other
RECURSIVE maintainFrom(_, _, _)
maintainFrom(keys, ags, reg) ==
  IF keys = << >> THEN reg
  ELSE LET serviceType == Head(keys)
           aliveMembers == {id \in reg.cartels[serviceType] :
                              id \in DOMAIN ags /\ ags[id].status = "alive"}
       IN maintainFrom(Tail(keys), ags,
            IF Cardinality(aliveMembers) < 3
            THEN [cartels |-> [reg.cartels EXCEPT ![serviceType] = {}],
                  cartelPrices |-> [reg.cartelPrices EXCEPT ![serviceType] = << >>]]
            ELSE [cartels |-> [reg.cartels EXCEPT ![serviceType] = aliveMembers],
                  cartelPrices |-> reg.cartelPrices])

maintainCartels(ags, reg) ==
  maintainFrom(SelectIdx(Types, Registered(reg.cartels), 1), ags, reg)

\* tick(), step 4: CartelBehavior.maintainCartels
MaintainCartels ==
  /\ micro = << >>
  /\ LET reg == maintainCartels(agents, [cartels |-> cartels,
                                          cartelPrices |-> cartelPrices])
     IN /\ cartels' = reg.cartels
        /\ cartelPrices' = reg.cartelPrices
  /\ UNCHANGED <<engineVars, payVars, breakerVars, negotiation, giniCall, callVars>>

\* tick(), step 5: attemptCartelFormation, which calls formCartel for every
\* service type that canFormCartel and does not await it; formCartel runs
\* up to its first `await makeDecision`.  `members` is the promise formCartel
\* returns: members.length is undefined, `undefined > 0` is false, and
\* 'cartel-formed' is not emitted
AttemptCartelFormation ==
  /\ micro = << >>
  /\ IF negotiation = << >> THEN TRUE ELSE negotiation[1].returned
  /\ \E serviceType \in TypeSet :
       /\ canFormCartel(agents, cartels, serviceType)
       /\ Eligible(agents, serviceType) # << >>
       /\ negotiation' = <<[serviceType |-> serviceType,
                            marketPrice |-> PassedMarketPrice(transactions, serviceType),
                            asked |-> Eligible(agents, serviceType),
                            negotiations |-> << >>,
                            skipped |-> 0,
                            returned |-> FALSE]>>
  /\ UNCHANGED <<engineVars, payVars, breakerVars, cartels, cartelPrices, giniCall, callVars>>

\* formCartel after an `await makeDecision`: the answer of the agent asked
\* is recorded and the next agent is asked; after the last one the cartel is
\* formed if three or more have joined
Negotiate ==
  /\ micro = << >>
  /\ negotiation # << >>
  /\ ~negotiation[1].returned
  /\ \E answer \in CartelAnswers : \E drawn \in HeuristicMultipliers :
       LET n == negotiation[1]
           asking == Len(n.negotiations) + n.skipped + 1
           a == n.asked[asking]
           negotiations == n.negotiations \o Negotiated(agents[a], a, answer, drawn)
           last == asking = Len(n.asked)
           joiners == {negotiations[i].agentId : i \in Joiners(negotiations)}
           cartelPrice == ConsensusPrice(n.marketPrice, negotiations)
       IN /\ answer.kind = "throws" \/ drawn = 120
          /\ negotiation' = <<[n EXCEPT !.negotiations = negotiations,
                                         !.skipped = IF answer.kind = "text"
                                                     THEN @ + 1 ELSE @,
                                         !.returned = last]>>
          /\ IF last /\ Cardinality(joiners) >= 3
             THEN /\ cartels' = [cartels EXCEPT ![n.serviceType] = joiners]
                  /\ cartelPrices' = [cartelPrices EXCEPT
                                        ![n.serviceType] = <<cartelPrice>>]
                  /\ agents' = [x \in DOMAIN agents |->
                                  IF x \in joiners
                                  THEN [agents[x] EXCEPT !.basePrice = cartelPrice]
                                  ELSE agents[x]]
             ELSE UNCHANGED <<cartels, cartelPrices, agents>>
  /\ UNCHANGED <<running, tickInterval, intervals, tickCount, reqs,
                 serviceRequests, transactions, payments, ticks, waiting, micro,
                 emitted, updates, startCalls, payVars, breakerVars, giniCall, callVars>>

\* ---------------------------------------------------------------- prices
\* prices are exact fractions of a milli-SOL: r * num / den, and r <= q
RatTimes(r, num, den) == Rat(r.num * num, r.den * den)
RatLeq(r, q) == r.num * q.den <= q.num * r.den
RatMax(r, q) == IF RatLeq(r, q) THEN q ELSE r
RatMin(r, q) == IF RatLeq(r, q) THEN r ELSE q

\* the three members of AgentStrategy['pricingModel']
PricingModels == {"aggressive", "balanced", "premium"}

\* BaseAgent.calculatePrice
calculatePrice(strategy, reputation, marketPrice) ==
  LET price ==
        IF strategy.pricingModel = "aggressive" THEN RatTimes(marketPrice, 8, 10)
        ELSE IF strategy.pricingModel = "premium"
        THEN (IF reputation > 70 THEN RatTimes(marketPrice, 15, 10) ELSE marketPrice)
        ELSE marketPrice
  IN RatMax(strategy.minPrice, RatMin(strategy.maxPrice, price))

\* TraderAgent.calculatePrice: volatilityMultiplier = 1.2
TraderCalculatePrice(strategy, reputation, marketPrice) ==
  RatTimes(calculatePrice(strategy, reputation, marketPrice), 12, 10)

\* agent.calculatePrice(serviceType, marketPrice) by the class of the
\* agent: TraderAgent overrides it, the other classes inherit it
CalculatePrice ==
  /\ priceCall # << >>
  /\ priceCall[1].result = << >>
  /\ LET c == priceCall[1]
         price == IF c.type = "trading"
                  THEN TraderCalculatePrice(c.strategy, c.reputation, c.marketPrice)
                  ELSE calculatePrice(c.strategy, c.reputation, c.marketPrice)
     IN priceCall' = <<[c EXCEPT !.result = <<price>>]>>
  /\ UNCHANGED <<engineVars, payVars, breakerVars, cartelVars, giniCall, decideVars,
                 adaptCall, historyVars, mirrorVars, sideVars>>

\* ------------------------------------------------------------ adaptation
\* what makeDecision returns to adaptStrategy, as JSON.parse(analysis)
\* reads it: an object with change and pricingModel ("" when the field is
\* absent or empty, "dynamic" for any string that is no pricing mode), or
\* text that is no JSON, for which JSON.parse throws
Analyses ==
  {[parses |-> TRUE, change |-> c, pricingModel |-> pm] :
     c \in BOOLEAN, pm \in PricingModels \cup {"dynamic", ""}}
  \cup {[parses |-> FALSE, change |-> FALSE, pricingModel |-> ""]}

\* adaptStrategy after makeDecision has returned: JSON.parse, then
\* `if (parsed.change && parsed.pricingModel)` the assignment
adaptFromAnalysis(ag, analysis) ==
  IF analysis.parses /\ analysis.change /\ analysis.pricingModel # ""
  THEN [ag EXCEPT !.pricingModel = analysis.pricingModel]
  ELSE ag

\* adaptStrategy up to its await of makeDecision, or to its return
AdaptStrategy ==
  /\ adaptCall # << >>
  /\ adaptCall[1].pc = "called"
  /\ LET c == adaptCall[1]
         ag == c.ag
     IN IF ag.status = "critical"
        THEN adaptCall' = <<[c EXCEPT !.pc = "returned",
                                      !.ag.pricingModel = "aggressive",
                                      !.ag.minPrice = SurvivalMinPrice]>>
        ELSE IF ag.balance > RichBalance /\ ag.reputation > 80
        THEN adaptCall' = <<[c EXCEPT !.pc = "returned",
                                      !.ag.pricingModel = "premium"]>>
        ELSE IF ag.servicesCompleted < 5
        THEN adaptCall' = <<[c EXCEPT !.pc = "returned"]>>
        ELSE IF ag.servicesCompleted > 10
        THEN adaptCall' = <<[c EXCEPT !.pc = "asked"]>>
        ELSE adaptCall' = <<[c EXCEPT !.pc = "returned"]>>
  /\ UNCHANGED <<engineVars, payVars, breakerVars, cartelVars, giniCall, decideVars,
                 priceCall, historyVars, mirrorVars, sideVars>>

\* makeDecision returns its analysis to adaptStrategy
AnalysisReturns ==
  /\ adaptCall # << >>
  /\ adaptCall[1].pc = "asked"
  /\ \E analysis \in Analyses :
       adaptCall' = <<[adaptCall[1] EXCEPT
                         !.pc = "returned",
                         !.analysis = <<analysis>>,
                         !.ag = adaptFromAnalysis(adaptCall[1].ag, analysis)]>>
  /\ UNCHANGED <<engineVars, payVars, breakerVars, cartelVars, giniCall, decideVars,
                 priceCall, historyVars, mirrorVars, sideVars>>

\* -------------------------------------------------------------- histories
\* the last n elements of h: Array.prototype.slice(-n)
SliceLast(h, n) == IF Len(h) > n THEN SubSeq(h, Len(h) - n + 1, Len(h)) ELSE h

\* the i-th transaction pushed to the ledger
Tx(i) ==
  [request |-> i, to |-> 0, serviceType |-> "trading", amount |-> Milli(20),
   x402PaymentId |-> i]

\* the i-th event of an agent; the clock stands at i
AgentEvent(i) == [type |-> "service", timestamp |-> i]

\* the BalanceSnapshot of recordSnapshot at time now: the balances of the
\* agents not dead (the ten richest; the model has fewer) and the counts.
\* giniCoefficient and serviceVolume are left out
BalanceSnapshot(ags, now) ==
  LET alive == {a \in DOMAIN ags : ags[a].status # "dead"}
  IN [timestamp |-> now,
      balances |-> {<<a, ags[a].balance>> : a \in alive},
      aliveCount |-> Cardinality(alive),
      deadCount |-> Cardinality(DOMAIN ags) - Cardinality(alive)]

\* BaseAgent.addEvent
addEvent(history, event) ==
  LET pushed == Append(history, event)
  IN IF Len(pushed) > EventCap THEN SliceLast(pushed, EventCap) ELSE pushed

\* recordSnapshot keeping the first 200 snapshots in place of the last
recordSnapshotKeepOldest(history, snapshot) ==
  LET pushed == Append(history, snapshot)
  IN IF Len(pushed) > SnapshotCap THEN SubSeq(pushed, 1, SnapshotCap) ELSE pushed

\* recordSnapshot: the push and the cut to the last 200
recordSnapshot(history, snapshot) ==
  LET pushed == Append(history, snapshot)
  IN IF Len(pushed) > SnapshotCap THEN SliceLast(pushed, SnapshotCap) ELSE pushed

\* matchRequests pushes a transaction onto the ledger
PushTransaction ==
  /\ micro = << >>
  /\ logged.pushes < MaxPushes
  /\ transactions' = Append(transactions, Tx(logged.transactions + 1))
  /\ logged' = [logged EXCEPT !.transactions = @ + 1, !.pushes = @ + 1]
  /\ UNCHANGED <<running, tickInterval, intervals, tickCount, agents, reqs,
                 serviceRequests, payments, ticks, waiting, micro, emitted,
                 updates, startCalls, payVars, breakerVars, cartelVars, giniCall,
                 decideVars, priceCall, adaptCall, balanceHistory, eventHistory,
                 mirrorVars, sideVars>>

\* an agent records an event: addEvent
AddEvent ==
  /\ micro = << >>
  /\ logged.pushes < MaxPushes
  /\ eventHistory' = addEvent(eventHistory, AgentEvent(logged.events + 1))
  /\ logged' = [logged EXCEPT !.events = @ + 1, !.pushes = @ + 1]
  /\ UNCHANGED <<engineVars, payVars, breakerVars, cartelVars, giniCall,
                 decideVars, priceCall, adaptCall, balanceHistory,
                 mirrorVars, sideVars>>

\* the end of tick(): the cap of the ledger, recordSnapshot and emitStats
RecordSnapshot ==
  /\ micro = << >>
  /\ logged.pushes < MaxPushes
  /\ transactions' = CapTransactions(transactions)
  /\ balanceHistory' =
       recordSnapshot(balanceHistory, BalanceSnapshot(agents, logged.snapshots + 1))
  /\ emitted' = [emitted EXCEPT !.stats = @ + 1]
  /\ logged' = [logged EXCEPT !.snapshots = @ + 1, !.pushes = @ + 1]
  /\ UNCHANGED <<running, tickInterval, intervals, tickCount, agents, reqs,
                 serviceRequests, payments, ticks, waiting, micro,
                 updates, startCalls, payVars, breakerVars, cartelVars, giniCall,
                 decideVars, priceCall, adaptCall, eventHistory,
                 mirrorVars, sideVars>>

\* ------------------------------------------------------------------ stats
\* a JavaScript number: binary floating point, m * 2^e with a significand
\* of Precision bits, 2^(Precision-1) <= |m| < 2^Precision, or m = 0, e = 0.
\* Round(M, E) is the number nearest to M * 2^E, ties to the even
\* significand
FlZero == [m |-> 0, e |-> 0]

Abs(x) == IF x < 0 THEN 0 - x ELSE x

RECURSIVE ScaleUp(_, _)
ScaleUp(a, e) ==
  IF a >= Pow(2, Precision - 1) THEN [m |-> a, e |-> e]
  ELSE ScaleUp(2 * a, e - 1)

RECURSIVE ExcessBits(_, _)
ExcessBits(a, sh) ==
  IF a \div Pow(2, sh) < Pow(2, Precision) THEN sh ELSE ExcessBits(a, sh + 1)

Round(M, E) ==
  IF M = 0 THEN FlZero
  ELSE LET sign == IF M < 0 THEN 0 - 1 ELSE 1
           up == ScaleUp(Abs(M), E)
           sh == ExcessBits(up.m, 0)
           q == up.m \div Pow(2, sh)
           r == up.m % Pow(2, sh)
           half == IF sh = 0 THEN 0 ELSE Pow(2, sh - 1)
           q1 == IF sh > 0 /\ (r > half \/ (r = half /\ q % 2 = 1))
                 THEN q + 1 ELSE q
       IN IF q1 = Pow(2, Precision)
          THEN [m |-> sign * Pow(2, Precision - 1), e |-> up.e + sh + 1]
          ELSE [m |-> sign * q1, e |-> up.e + sh]

\* the number of an integer, and integer * number
FromInt(k) == Round(k, 0)
FlTimesInt(k, x) == Round(k * x.m, x.e)

\* x + y
FlAdd(x, y) ==
  IF x.m = 0 THEN y
  ELSE IF y.m = 0 THEN x
  ELSE LET e == Min(x.e, y.e)
       IN Round(x.m * Pow(2, x.e - e) + y.m * Pow(2, y.e - e), e)

\* x / y for y # 0: the quotient to Precision + 2 bits and a sticky bit,
\* then rounded
FlDiv(x, y) ==
  IF x.m = 0 THEN FlZero
  ELSE LET sign == IF (x.m < 0) = (y.m < 0) THEN 1 ELSE 0 - 1
           k == Precision + 2
           N == Abs(x.m) * Pow(2, k)
           Q == N \div Abs(y.m)
           sticky == IF N % Abs(y.m) = 0 THEN 0 ELSE 1
       IN Round(sign * (2 * Q + sticky), x.e - y.e - k - 1)

\* x < y and x <= y
FlLess(x, y) ==
  IF x.m = 0 THEN y.m > 0
  ELSE IF y.m = 0 THEN x.m < 0
  ELSE IF (x.m < 0) # (y.m < 0) THEN x.m < 0
  ELSE IF x.e = y.e THEN x.m < y.m
  ELSE IF x.m > 0 THEN x.e < y.e
  ELSE x.e > y.e
FlLeq(x, y) == x = y \/ FlLess(x, y)

\* [...values].sort((a, b) => a - b): the smallest first
RECURSIVE SortAscending(_)
SortAscending(values) ==
  IF values = << >> THEN << >>
  ELSE LET i == CHOOSE j \in 1..Len(values) :
                  \A k \in 1..Len(values) : FlLeq(values[j], values[k])
       IN <<values[i]>>
            \o SortAscending(SubSeq(values, 1, i - 1)
                               \o SubSeq(values, i + 1, Len(values)))

\* sorted.reduce((a, b) => a + b, 0), the elements from index i on
RECURSIVE SumFrom(_, _, _)
SumFrom(sorted, i, acc) ==
  IF i > Len(sorted) THEN acc
  ELSE SumFrom(sorted, i + 1, FlAdd(acc, sorted[i]))

\* the loop of calculateGini: numerator += (2 * (i + 1) - n - 1) * sorted[i]
\* for i from 0; here i counts from 1
RECURSIVE NumeratorFrom(_, _, _)
NumeratorFrom(sorted, i, numerator) ==
  IF i > Len(sorted) THEN numerator
  ELSE NumeratorFrom(sorted, i + 1,
         FlAdd(numerator, FlTimesInt(2 * i - Len(sorted) - 1, sorted[i])))

\* ArenaEngine.calculateGini
calculateGini(values) ==
  LET sorted == SortAscending(values)
      n == Len(sorted)
      sum == SumFrom(sorted, 1, FlZero)
  IN IF n = 0 THEN FlZero
     ELSE IF sum = FlZero THEN FlZero
     ELSE FlDiv(NumeratorFrom(sorted, 1, FlZero), FlTimesInt(n, sum))

\* a caller passes an array of balances to calculateGini, which returns
CalculateGini ==
  /\ giniCall # << >>
  /\ giniCall[1].result = << >>
  /\ giniCall' = <<[giniCall[1] EXCEPT !.result = <<calculateGini(giniCall[1].values)>>]>>
  /\ UNCHANGED <<engineVars, payVars, breakerVars, cartelVars, callVars>>

\* ------------------------------------------------------------ reputation
\* a call of the public method updateReputation(delta)
Rate ==
  /\ micro = << >>
  /\ updates < MaxUpdates
  /\ \E a \in DOMAIN agents : \E delta \in ReputationDeltas :
       agents' = [agents EXCEPT ![a] = updateReputation(agents[a], delta)]
  /\ updates' = updates + 1
  /\ UNCHANGED <<running, tickInterval, intervals, tickCount, reqs,
                 serviceRequests, transactions, payments, ticks, waiting, micro,
                 emitted, startCalls, wire, settlement, unitVars>>

\* an agent executes a service of its category: executeService once the
\* reasoning provider has answered
Serve ==
  /\ micro = << >>
  /\ \E a \in DOMAIN agents : \E payment \in Payments :
       /\ agents[a].servicesCompleted < MaxServices
       /\ agents' = [agents EXCEPT
                       ![a] = executeService(AgentType(a), agents[a], payment)]
  /\ UNCHANGED <<running, tickInterval, intervals, tickCount, reqs,
                 serviceRequests, transactions, payments, ticks, waiting, micro,
                 emitted, updates, startCalls, wire, settlement, unitVars>>

\* an agent takes the payment of a request without the work:
\* ScammingBehavior.executeScam
Scam ==
  /\ micro = << >>
  /\ \E a \in DOMAIN agents : \E payment \in Payments :
       /\ agents[a].servicesCompleted < MaxServices
       /\ agents' = [agents EXCEPT ![a] = executeScam(agents[a], payment)]
  /\ UNCHANGED <<running, tickInterval, intervals, tickCount, reqs,
                 serviceRequests, transactions, payments, ticks, waiting, micro,
                 emitted, updates, startCalls, wire, settlement, unitVars>>

\* the event stream, counted per kind; statsAtStop is the place of the last
\* 'stopped' in it: the number of 'stats' emitted before it
NoEvents ==
  [started |-> 0, stopped |-> 0, transaction |-> 0, scamDetected |-> 0,
   stats |-> 0, deathScans |-> 0, statsAtStop |-> 0, serviceFailed |-> 0,
   allianceFormed |-> 0, allianceBroken |-> 0, cartelFormed |-> << >>,
   agentDied |-> [a \in Agents |-> 0],
   balanceRedistributed |-> [a \in Agents |-> 0]]

\* an ArenaEngine that was never started, and an x402 channel with nothing
\* in transit
InitIdle ==
  /\ running = FALSE
  /\ tickInterval = FALSE
  /\ intervals = 0
  /\ tickCount = 0
  /\ reqs = << >>
  /\ serviceRequests = << >>
  /\ payments = << >>
  /\ ticks = [k \in TickSlots |-> IdleTick]
  /\ waiting = {}
  /\ micro = << >>
  /\ emitted = NoEvents
  /\ updates = 0
  /\ startCalls = 0
  /\ wire = << >>
  /\ settlement = << >>

\* getArenaEngine(): a new ArenaEngine after initialize(), before start()
InitEngine ==
  /\ agents = [a \in Agents |-> BaseAgent(InitialBalance)]
  /\ transactions = << >>
  /\ InitIdle

\* nothing pushed to a history yet; pushes counts the pushes of this run
NothingLogged == [transactions |-> 0, snapshots |-> 0, events |-> 0, pushes |-> 0]

\* no call made to the SolanaLogger, no signature attached to an agent
InitMirrorVars ==
  /\ mirror = << >>
  /\ solanaTxSignature = [a \in Agents |-> << >>]

\* no alliance, no stats report and no request to the service endpoint
InitSide ==
  /\ alliances = [a \in Agents |-> {}]
  /\ statsCall = << >>
  /\ serviceCall = << >>

\* no call of the parts modelled on their own has been made
InitCalls ==
  /\ acceptCall = << >>
  /\ reasoning = << >>
  /\ priceCall = << >>
  /\ adaptCall = << >>
  /\ balanceHistory = << >>
  /\ eventHistory = << >>
  /\ logged = NothingLogged
  /\ InitMirrorVars
  /\ InitSide

\* the process as the engine runs it: Kimi configured, no call made yet
InitUnits ==
  /\ USE_KIMI = TRUE
  /\ USE_ANTHROPIC = FALSE
  /\ DEMO_MODE = FALSE
  /\ aiFailCount = 0
  /\ chats = [a \in Agents |-> 0]
  /\ calls = NoCalls
  /\ cartels = NoCartels
  /\ cartelPrices = NoPrices
  /\ negotiation = << >>
  /\ giniCall = << >>
  /\ InitCalls

Init == InitEngine /\ InitUnits

\* the engine as getArenaEngine() runs it: started, never stopped
Next ==
  \/ Start
  \/ TimerFire
  \/ MatchRequests
  \/ AcceptReply
  \/ Decided
  \/ ExecReply
  \/ Completed
  \/ PostMatch
  \/ FinishTick
  \/ Debit

Spec == Init /\ [][Next]_vars

\* the engine under the calls start() and stop() of its owner
NextLifecycle ==
  \/ Start
  \/ Stop
  \/ TimerFire
  \/ MatchRequests
  \/ AcceptReply
  \/ Decided
  \/ ExecReply
  \/ Completed
  \/ PostMatch
  \/ FinishTick

SpecLifecycle == Init /\ [][NextLifecycle]_vars

\* ------------------------------------------------- an actor on its own
\* an external credit of an agent: updateBalance(amount)
Credit ==
  /\ micro = << >>
  /\ updates < MaxUpdates
  /\ \E a \in Agents : \E amount \in Payments :
       agents' = [agents EXCEPT ![a] = updateBalance(agents[a], amount)]
  /\ updates' = updates + 1
  /\ UNCHANGED <<running, tickInterval, intervals, tickCount, reqs,
                 serviceRequests, transactions, payments, ticks, waiting, micro,
                 emitted, startCalls, wire, settlement, unitVars>>

\* agents built by createAgent(id, type, initialBalance), no engine started
InitActor ==
  /\ running = FALSE
  /\ tickInterval = FALSE
  /\ intervals = 0
  /\ tickCount = 0
  /\ agents \in [Agents -> {BaseAgent(b) : b \in InitialBalances}]
  /\ reqs = << >>
  /\ serviceRequests = << >>
  /\ transactions = << >>
  /\ payments = << >>
  /\ ticks = [k \in TickSlots |-> IdleTick]
  /\ waiting = {}
  /\ micro = << >>
  /\ emitted = NoEvents
  /\ updates = 0
  /\ startCalls = 0
  /\ wire = << >>
  /\ settlement = << >>
  /\ InitUnits

NextActor ==
  \/ Credit
  \/ Debit

SpecActor == InitActor /\ [][NextActor]_vars

\* ------------------------------------------------- the x402 handshake
Payers == {"client", "mallory"}
Payees == {0, 1}
Nonces == {"n1", "n2"}

\* the strings a sender can put in a numeric field: the decimal digits of a
\* time or of an amount, "x" and "25x" (the character x is 11)
TimeStrings == {DecStr(t) : t \in Times} \cup {<<11>>, <<2, 5, 11>>}
ValueStrings == {DecStr(Lamports(p)) : p \in Payments}

\* the requester signs an authorization: createPaymentSignature
Sign ==
  /\ \E from \in Payers, to \in Payees, amount \in Payments, nonce \in Nonces,
        now \in Times :
       wire' = <<createPaymentSignature(from, to, amount, nonce, now)>>
  /\ settlement' = << >>
  /\ UNCHANGED <<engineVars, unitVars>>

\* the PAYMENT-SIGNATURE is a header of the request: the sender can put
\* anything in one of its fields
Tamper ==
  /\ wire # << >>
  /\ \/ \E v \in Payers : wire' = <<[wire[1] EXCEPT !.authorization.from = v]>>
     \/ \E v \in Payees : wire' = <<[wire[1] EXCEPT !.authorization.to = v]>>
     \/ \E v \in ValueStrings : wire' = <<[wire[1] EXCEPT !.authorization.value = v]>>
     \/ \E v \in Nonces : wire' = <<[wire[1] EXCEPT !.authorization.nonce = v]>>
     \/ \E v \in TimeStrings :
          wire' = <<[wire[1] EXCEPT !.authorization.validAfter = v]>>
     \/ \E v \in TimeStrings :
          wire' = <<[wire[1] EXCEPT !.authorization.validBefore = v]>>
  /\ settlement' = << >>
  /\ UNCHANGED <<engineVars, unitVars>>

\* the provider settles the payment in transit: verifyAndSettle at time now
Settle ==
  /\ wire # << >>
  /\ \E now \in Times :
       settlement' = <<[now |-> now, result |-> verifyAndSettle(wire[1], now)]>>
  /\ UNCHANGED <<wire, engineVars, unitVars>>

NextPay ==
  \/ Sign
  \/ Tamper
  \/ Settle

SpecPay == Init /\ [][NextPay]_vars

\* ------------------------------------------- the breaker on its own
\* the module BaseAgent.ts as loaded under some environment: USE_ANTHROPIC
\* is `!USE_KIMI && ...`, DEMO_MODE is `!USE_KIMI && !USE_ANTHROPIC`
InitBreaker ==
  /\ InitEngine
  /\ USE_KIMI \in BOOLEAN
  /\ USE_ANTHROPIC \in BOOLEAN
  /\ ~(USE_KIMI /\ USE_ANTHROPIC)
  /\ DEMO_MODE = (~USE_KIMI /\ ~USE_ANTHROPIC)
  /\ aiFailCount = 0
  /\ chats = [a \in Agents |-> 0]
  /\ calls = NoCalls
  /\ cartels = NoCartels
  /\ cartelPrices = NoPrices
  /\ negotiation = << >>
  /\ giniCall = << >>
  /\ InitCalls

NextBreaker ==
  \/ MakeDecision
  \/ ChatResolves
  \/ ChatRejects

SpecBreaker == InitBreaker /\ [][NextBreaker]_vars

\* ------------------------------------------- shouldAcceptRequest on its own
\* one agent, alive, critical or dead, under each provider configuration
InitDecide ==
  /\ \E a \in Agents : \E b \in InitialBalances :
       agents = [x \in {a} |-> [BaseAgent(b) EXCEPT !.status = updateStatus(b)]]
  /\ transactions = << >>
  /\ InitIdle
  /\ USE_KIMI \in BOOLEAN
  /\ USE_ANTHROPIC \in BOOLEAN
  /\ ~(USE_KIMI /\ USE_ANTHROPIC)
  /\ DEMO_MODE = (~USE_KIMI /\ ~USE_ANTHROPIC)
  /\ aiFailCount = 0
  /\ chats = [a \in Agents |-> 0]
  /\ calls = NoCalls
  /\ cartels = NoCartels
  /\ cartelPrices = NoPrices
  /\ negotiation = << >>
  /\ giniCall = << >>
  /\ InitCalls

NextDecide ==
  \/ ShouldAcceptRequest
  \/ KimiResponds
  \/ KimiFails
  \/ AnthropicResponds
  \/ AnthropicFails

SpecDecide == InitDecide /\ [][NextDecide]_vars

\* ------------------------------------------------- cartels on their own
\* the agents of the first service type in an arena of NumOfType agents per
\* type
TypeMates ==
  {i \in 0..(NumOfType * Len(Types) - 1) : AgentType(i) = Types[1]}

\* the reputations of the agents when the engine attempts a cartel
CartelReputations == {50, 70}

\* the ledger when the engine attempts a cartel: thirty transactions of the
\* service type, the last ten of 0.02 SOL each or of 0.02 and 0.08 SOL in turn
CartelHistories ==
  {[i \in 1..30 |->
      [request |-> i, to |-> 0, serviceType |-> Types[1],
       amount |-> IF i <= 20 THEN Milli(80) ELSE Milli(20), x402PaymentId |-> i]],
   [i \in 1..30 |->
      [request |-> i, to |-> 0, serviceType |-> Types[1],
       amount |-> IF i % 2 = 0 THEN Milli(80) ELSE Milli(20), x402PaymentId |-> i]]}

\* an arena some cycles old, between two cycles, without a cartel; the
\* base prices are written as fractions, as formCartel will set them
InitCartel ==
  /\ running = TRUE
  /\ tickInterval = TRUE
  /\ intervals = 1
  /\ tickCount = 1
  /\ agents \in [TypeMates ->
                   {[BaseAgent(InitialBalance) EXCEPT
                       !.reputation = r,
                       !.basePrice = Rat(DefaultBasePrice, 1)] :
                      r \in CartelReputations}]
  /\ reqs = << >>
  /\ serviceRequests = << >>
  /\ transactions \in CartelHistories
  /\ payments = << >>
  /\ ticks = [k \in TickSlots |-> IdleTick]
  /\ waiting = {}
  /\ micro = << >>
  /\ emitted = NoEvents
  /\ updates = 0
  /\ startCalls = 1
  /\ wire = << >>
  /\ settlement = << >>
  /\ InitUnits

NextCartel ==
  \/ AttemptCartelFormation
  \/ Negotiate
  \/ MaintainCartels
  \/ Debit

SpecCartel == InitCartel /\ [][NextCartel]_vars

\* --------------------------------------------- calculateGini on its own
\* balances for the arrays passed to calculateGini: 0, 0.7, 1 and 1.5 SOL
GiniBalances ==
  {FlZero, FlDiv(FromInt(7), FromInt(10)), FromInt(1), FlDiv(FromInt(3), FromInt(2))}

\* the arrays of at most n balances
RECURSIVE ArraysUpTo(_)
ArraysUpTo(n) ==
  IF n = 0 THEN {<< >>}
  ELSE ArraysUpTo(n - 1) \cup [1..n -> GiniBalances]

InitGini ==
  /\ InitEngine
  /\ USE_KIMI = TRUE
  /\ USE_ANTHROPIC = FALSE
  /\ DEMO_MODE = FALSE
  /\ aiFailCount = 0
  /\ chats = [a \in Agents |-> 0]
  /\ calls = NoCalls
  /\ cartels = NoCartels
  /\ cartelPrices = NoPrices
  /\ negotiation = << >>
  /\ giniCall \in {<<[values |-> v, result |-> << >>]>> : v \in ArraysUpTo(MaxLen)}
  /\ InitCalls

NextGini == CalculateGini

SpecGini == InitGini /\ [][NextGini]_vars

\* ------------------------------------------------ calculatePrice on its own
\* market prices passed to calculatePrice, in milli-SOL
MarketPrices == {Rat(Milli(5), 1), Rat(Milli(50), 1), Rat(Milli(150), 1), Rat(Milli(300), 1)}

\* the strategies of an agent: the constructor's defaults, the pricing mode
\* as adaptStrategy leaves it, minPrice 0.005 after survival mode
Strategies ==
  {[pricingModel |-> pm, minPrice |-> Rat(mn, 1), maxPrice |-> Rat(DefaultMaxPrice, 1)] :
     pm \in PricingModels, mn \in {DefaultMinPrice, SurvivalMinPrice}}

InitPrice ==
  /\ InitEngine
  /\ USE_KIMI = TRUE
  /\ USE_ANTHROPIC = FALSE
  /\ DEMO_MODE = FALSE
  /\ aiFailCount = 0
  /\ chats = [a \in Agents |-> 0]
  /\ calls = NoCalls
  /\ cartels = NoCartels
  /\ cartelPrices = NoPrices
  /\ negotiation = << >>
  /\ giniCall = << >>
  /\ acceptCall = << >>
  /\ reasoning = << >>
  /\ adaptCall = << >>
  /\ balanceHistory = << >>
  /\ eventHistory = << >>
  /\ logged = NothingLogged
  /\ InitMirrorVars
  /\ InitSide
  /\ priceCall \in {<<[type |-> t, strategy |-> st, reputation |-> r,
                        marketPrice |-> mp, result |-> << >>]>> :
                      t \in TypeSet, st \in Strategies, r \in {InitialReputation, 90},
                      mp \in MarketPrices}

NextPrice == CalculatePrice

SpecPrice == InitPrice /\ [][NextPrice]_vars

\* ------------------------------------------------- adaptStrategy on its own
\* the agents that agentAdaptation hands to adaptStrategy, some services old
AdaptBalances == {Milli(50), InitialBalance, Milli(3500)}
AdaptServices == {3, 7, 12}

InitAdapt ==
  /\ InitEngine
  /\ USE_KIMI = TRUE
  /\ USE_ANTHROPIC = FALSE
  /\ DEMO_MODE = FALSE
  /\ aiFailCount = 0
  /\ chats = [a \in Agents |-> 0]
  /\ calls = NoCalls
  /\ cartels = NoCartels
  /\ cartelPrices = NoPrices
  /\ negotiation = << >>
  /\ giniCall = << >>
  /\ acceptCall = << >>
  /\ reasoning = << >>
  /\ priceCall = << >>
  /\ balanceHistory = << >>
  /\ eventHistory = << >>
  /\ logged = NothingLogged
  /\ InitMirrorVars
  /\ InitSide
  /\ adaptCall \in
       {<<[pc |-> "called", analysis |-> << >>,
           ag |-> [balance |-> b, status |-> updateStatus(b), reputation |-> r,
                   servicesCompleted |-> n, pricingModel |-> pm,
                   minPrice |-> DefaultMinPrice]]>> :
          b \in AdaptBalances, r \in {InitialReputation, 90}, n \in AdaptServices,
          pm \in PricingModels}

NextAdapt ==
  \/ AdaptStrategy
  \/ AnalysisReturns

SpecAdapt == InitAdapt /\ [][NextAdapt]_vars

\* ------------------------------------------------ the histories on their own
\* the engine some cycles old: each history empty, one short of its cap, or
\* at its cap
InitHistory ==
  /\ agents = [a \in Agents |-> BaseAgent(InitialBalance)]
  /\ InitIdle
  /\ USE_KIMI = TRUE
  /\ USE_ANTHROPIC = FALSE
  /\ DEMO_MODE = FALSE
  /\ aiFailCount = 0
  /\ chats = [a \in Agents |-> 0]
  /\ calls = NoCalls
  /\ cartels = NoCartels
  /\ cartelPrices = NoPrices
  /\ negotiation = << >>
  /\ giniCall = << >>
  /\ acceptCall = << >>
  /\ reasoning = << >>
  /\ priceCall = << >>
  /\ adaptCall = << >>
  /\ \E nt \in {0, TransactionCap - 1, TransactionCap} :
     \E ns \in {0, SnapshotCap - 1, SnapshotCap} :
     \E ne \in {0, EventCap - 1, EventCap} :
       /\ transactions = [i \in 1..nt |-> Tx(i)]
       /\ balanceHistory = [i \in 1..ns |-> BalanceSnapshot(agents, i)]
       /\ eventHistory = [i \in 1..ne |-> AgentEvent(i)]
       /\ logged = [transactions |-> nt, snapshots |-> ns, events |-> ne,
                    pushes |-> 0]
  /\ InitMirrorVars
  /\ InitSide

NextHistory ==
  \/ PushTransaction
  \/ AddEvent
  \/ RecordSnapshot

SpecHistory == InitHistory /\ [][NextHistory]_vars

\* ------------------------------------------- the cycles and the adaptation
\* tick() from its start to step 7, with matchRequests taken as one step in
\* which n of the cycle's twelve requests complete: the transactions are
\* pushed, and the cycle awaits agentAdaptation when the length of the
\* ledger is a multiple of 25; otherwise it runs to its end
TickToAdaptation ==
  /\ micro = << >>
  /\ ticks[1].pc = "idle"
  /\ tickCount < MaxTicks
  /\ tickCount' = tickCount + 1
  /\ \E n \in 0..RequestsPerCycle :
       LET pushed == transactions \o [i \in 1..n |-> Tx(logged.transactions + i)]
           adapts == Len(pushed) % AdaptationPeriod = 0
       IN /\ transactions' = IF adapts THEN pushed ELSE CapTransactions(pushed)
          /\ emitted' = [emitted EXCEPT
                           !.deathScans = @ + 1,
                           !.stats = IF adapts THEN @ ELSE @ + 1]
          /\ ticks' = [ticks EXCEPT
                         ![1] = IF adapts THEN [@ EXCEPT !.pc = "adapting"]
                                ELSE IdleTick]
          /\ micro' = IF adapts THEN <<[kind |-> "finish", tick |-> 1]>> ELSE << >>
          /\ logged' = [logged EXCEPT !.transactions = @ + n]
  /\ UNCHANGED <<running, tickInterval, intervals, agents, reqs,
                 serviceRequests, payments, waiting, updates, startCalls,
                 payVars, breakerVars, cartelVars, giniCall, decideVars,
                 priceCall, adaptCall, balanceHistory, eventHistory,
                 mirrorVars, sideVars>>

\* ledgers of 0, 20, 25 and 45 transactions, all of them completed services
PeriodLengths == {0, 20, 25, 45}

InitPeriod ==
  /\ agents = [a \in Agents |-> BaseAgent(InitialBalance)]
  /\ InitIdle
  /\ USE_KIMI = TRUE
  /\ USE_ANTHROPIC = FALSE
  /\ DEMO_MODE = FALSE
  /\ aiFailCount = 0
  /\ chats = [a \in Agents |-> 0]
  /\ calls = NoCalls
  /\ cartels = NoCartels
  /\ cartelPrices = NoPrices
  /\ negotiation = << >>
  /\ giniCall = << >>
  /\ acceptCall = << >>
  /\ reasoning = << >>
  /\ priceCall = << >>
  /\ adaptCall = << >>
  /\ balanceHistory = << >>
  /\ eventHistory = << >>
  /\ \E nt \in PeriodLengths :
       /\ transactions = [i \in 1..nt |-> Tx(i)]
       /\ logged = [NothingLogged EXCEPT !.transactions = nt]
  /\ InitMirrorVars
  /\ InitSide

NextPeriod ==
  \/ TickToAdaptation
  \/ FinishTick

SpecPeriod == InitPeriod /\ [][NextPeriod]_vars

\* ----------------------------------------- the end of a cycle and formCartel
\* cycle tickCount from its step 4 on: maintainCartels, then
\* attemptCartelFormation, which returns at formCartel's first await, then
\* the snapshot and the stats; formCartel goes on whenever makeDecision
\* answers, whether the cycle has reached its snapshot or not
SnapshotDue == logged.snapshots < tickCount

InitSnapshot == InitCartel

NextSnapshot ==
  \/ MaintainCartels /\ SnapshotDue /\ negotiation = << >>
  \/ AttemptCartelFormation /\ SnapshotDue
  \/ RecordSnapshot /\ SnapshotDue
  \/ Negotiate

SpecSnapshot == InitSnapshot /\ [][NextSnapshot]_vars

\* ------------------------------------------------------ the ledger mirror
\* a call of logTransaction, logDeath or updateStats: req is the request of
\* the transaction logged, agent the agent served or dead; the promise is
\* pending, resolved or rejected
MirrorCall(call, req, agent) ==
  [call |-> call, req |-> req, agent |-> agent, outcome |-> "pending"]

\* the Transaction of matchRequests, solanaTxSignature not yet attached
MirrorTx(r, request, paymentId) ==
  [request |-> r,
   to |-> request.agentId,
   serviceType |-> request.serviceType,
   amount |-> request.payment,
   x402PaymentId |-> paymentId,
   solanaTxSignature |-> << >>]

\* the callbacks as if logTransaction were awaited inside the try of
\* matchRequests: without a signature the request is marked failed
attachSignatureOrFail(st, c, sig) ==
  IF c.call # "logTransaction" THEN st
  ELSE IF sig = << >> THEN [st EXCEPT !.reqs[c.req].status = "failed"]
  ELSE [st EXCEPT
          !.transactions = [i \in DOMAIN st.transactions |->
                              IF st.transactions[i].request = c.req
                              THEN [st.transactions[i] EXCEPT !.solanaTxSignature = sig]
                              ELSE st.transactions[i]],
          !.signatures[c.agent] = sig]

\* the callbacks on a settled mirror call c; sig is << >> for null, the
\* value of a rejection after `.catch(() => null)` and of a disabled logger:
\* `solanaSig.then((sig) => { if (sig) { tx.solanaTxSignature = sig;
\* selectedAgent.setSolanaTxSignature(sig) } })`; logDeath and updateStats
\* have `.catch(() => {})` and nothing else
attachSignature(st, c, sig) ==
  IF c.call # "logTransaction" \/ sig = << >> THEN st
  ELSE [st EXCEPT
          !.transactions = [i \in DOMAIN st.transactions |->
                              IF st.transactions[i].request = c.req
                              THEN [st.transactions[i] EXCEPT !.solanaTxSignature = sig]
                              ELSE st.transactions[i]],
          !.signatures[c.agent] = sig]

\* the state the callbacks of a mirror call can reach
MirrorState ==
  [transactions |-> transactions, reqs |-> reqs, signatures |-> solanaTxSignature]

\* tick() up to the `await executeService` of matchRequests, for one
\* request: the request is generated, the best agent of its type accepts
\* and serves it
BeginCycle ==
  /\ micro = << >>
  /\ ticks[1].pc = "idle"
  /\ tickCount < StatsPeriod
  /\ tickCount' = tickCount + 1
  /\ ticks' = [ticks EXCEPT ![1].pc = "matching"]
  /\ \E serviceType \in TypeSet : \E payment \in Payments :
       IF Candidates(agents, serviceType) = {}
       THEN /\ reqs' = Append(reqs, NewRequest(serviceType, payment))
            /\ agents' = agents
       ELSE LET a == SelectedAgent(agents, serviceType)
            IN /\ reqs' = Append(reqs, [NewRequest(serviceType, payment) EXCEPT
                                          !.agentId = a,
                                          !.status = "in_progress",
                                          !.credits = 1])
               /\ agents' = [agents EXCEPT
                               ![a] = executeService(serviceType, agents[a], payment)]
  /\ UNCHANGED <<running, tickInterval, intervals, serviceRequests, transactions,
                 payments, waiting, micro, emitted, updates, startCalls,
                 payVars, unitVars>>

\* matchRequests after `await executeService`: the request is completed and
\* paid, logTransaction is called and not awaited, the transaction is pushed
CompleteService ==
  /\ micro = << >>
  /\ ticks[1].pc = "matching"
  /\ \E r \in 1..Len(reqs) : \E step \in EngineClockSteps :
       LET x402Payment ==
             executePayment("client", reqs[r].agentId, reqs[r].payment, "nonce",
                            tickCount, step)
       IN /\ reqs[r].status = "in_progress"
          /\ reqs' = [reqs EXCEPT ![r].status = "completed",
                                  ![r].settled = x402Payment.status]
          /\ payments' = Append(payments, x402Payment)
          /\ mirror' = Append(mirror, MirrorCall("logTransaction", r, reqs[r].agentId))
          /\ transactions' = Append(transactions, MirrorTx(r, reqs[r], Len(payments) + 1))
          /\ emitted' = [emitted EXCEPT !.transaction = @ + 1]
  /\ UNCHANGED <<running, tickInterval, intervals, tickCount, agents,
                 serviceRequests, ticks, waiting, micro, updates, startCalls,
                 payVars, breakerVars, cartelVars, giniCall, decideVars,
                 priceCall, adaptCall, historyVars, solanaTxSignature,
                 sideVars>>

\* the rest of tick() once matchRequests has returned: processDeaths with a
\* logDeath for every agent finalized, the cap of the ledger, the stats, and
\* in every tenth cycle updateStats; none of the calls is awaited
EndCycle ==
  /\ micro = << >>
  /\ ticks[1].pc = "matching"
  /\ \A r \in 1..Len(reqs) : reqs[r].status # "in_progress"
  /\ \E pick \in DeathPicks(agents) :
       LET d == processDeaths(agents, emitted, pick, tickCount)
           died == Filter([i \in 1..NumAgents |-> i - 1],
                          {a \in Agents : ToFinalize(agents[a])})
           deaths == [i \in 1..Len(died) |-> MirrorCall("logDeath", 0, died[i])]
           stats == IF tickCount % StatsPeriod = 0
                    THEN <<MirrorCall("updateStats", 0, NoAgent)>>
                    ELSE << >>
       IN /\ agents' = d.agents
          /\ emitted' = [d.emitted EXCEPT !.deathScans = @ + 1, !.stats = @ + 1]
          /\ mirror' = mirror \o deaths \o stats
  /\ transactions' = CapTransactions(transactions)
  /\ ticks' = [ticks EXCEPT ![1] = IdleTick]
  /\ UNCHANGED <<running, tickInterval, intervals, tickCount, reqs,
                 serviceRequests, payments, waiting, micro, updates, startCalls,
                 payVars, breakerVars, cartelVars, giniCall, decideVars,
                 priceCall, adaptCall, historyVars, solanaTxSignature,
                 sideVars>>

\* the state after the callbacks of mirror call i, settled with outcome
SettleMirror(i, outcome, sig) ==
  LET st == attachSignature(MirrorState, mirror[i], sig)
  IN /\ mirror[i].outcome = "pending"
     /\ mirror' = [mirror EXCEPT ![i].outcome = outcome]
     /\ transactions' = st.transactions
     /\ reqs' = st.reqs
     /\ solanaTxSignature' = st.signatures
     /\ UNCHANGED <<running, tickInterval, intervals, tickCount, agents,
                    serviceRequests, payments, ticks, waiting, micro, emitted,
                    updates, startCalls, payVars, breakerVars, cartelVars,
                    giniCall, decideVars, priceCall, adaptCall, historyVars,
                    sideVars>>

\* a mirror call resolves with a signature, at any time after it was made
MirrorResolves ==
  /\ micro = << >>
  /\ \E i \in 1..Len(mirror) : SettleMirror(i, "resolved", <<i>>)

\* a mirror call rejects or resolves with null, at any time after it was made
MirrorFails ==
  /\ micro = << >>
  /\ \E i \in 1..Len(mirror) : SettleMirror(i, "rejected", << >>)

\* the engine in its cycle StatsPeriod - MaxTicks, no request outstanding
InitMirror ==
  /\ agents = [a \in Agents |-> BaseAgent(InitialBalance)]
  /\ transactions = << >>
  /\ running = TRUE
  /\ tickInterval = TRUE
  /\ intervals = 1
  /\ tickCount = StatsPeriod - MaxTicks
  /\ reqs = << >>
  /\ serviceRequests = << >>
  /\ payments = << >>
  /\ ticks = [k \in TickSlots |-> IdleTick]
  /\ waiting = {}
  /\ micro = << >>
  /\ emitted = NoEvents
  /\ updates = 0
  /\ startCalls = 1
  /\ wire = << >>
  /\ settlement = << >>
  /\ InitUnits

NextMirror ==
  \/ BeginCycle
  \/ CompleteService
  \/ EndCycle
  \/ MirrorResolves
  \/ MirrorFails
  \/ Debit

SpecMirror == InitMirror /\ [][NextMirror]_vars

\* ---------------------------------------------------------------- alliances
\* BaseAgent.shouldFormAlliance of agent a towards agent b
shouldFormAlliance(al, ags, a, b) ==
  /\ ags[b].status # "dead"
  /\ ags[b].reputation >= AllianceThreshold
  /\ AgentType(b) # AgentType(a)
  /\ b \notin al[a]

\* manageAlliances in which only agent1 records and drops the alliance
manageAlliancesOneSided(al, ags, agent1, agent2) ==
  IF agent1 = agent2 THEN [alliances |-> al, event |-> "none"]
  ELSE IF agent2 \notin al[agent1] /\ shouldFormAlliance(al, ags, agent1, agent2)
  THEN [alliances |-> [al EXCEPT ![agent1] = @ \cup {agent2}],
        event |-> "alliance-formed"]
  ELSE IF agent2 \in al[agent1]
          /\ (ags[agent2].reputation < BetrayalThreshold \/ ags[agent2].status = "dead")
  THEN [alliances |-> [al EXCEPT ![agent1] = @ \ {agent2}],
        event |-> "alliance-broken"]
  ELSE [alliances |-> al, event |-> "none"]

\* manageAlliances for the two agents drawn: formAlliance or breakAlliance
\* on both of them, and the event emitted
manageAlliances(al, ags, agent1, agent2) ==
  IF agent1 = agent2 THEN [alliances |-> al, event |-> "none"]
  ELSE IF agent2 \notin al[agent1] /\ shouldFormAlliance(al, ags, agent1, agent2)
  THEN [alliances |-> [al EXCEPT ![agent1] = @ \cup {agent2},
                                 ![agent2] = @ \cup {agent1}],
        event |-> "alliance-formed"]
  ELSE IF agent2 \in al[agent1]
          /\ (ags[agent2].reputation < BetrayalThreshold \/ ags[agent2].status = "dead")
  THEN [alliances |-> [al EXCEPT ![agent1] = @ \ {agent2},
                                 ![agent2] = @ \ {agent1}],
        event |-> "alliance-broken"]
  ELSE [alliances |-> al, event |-> "none"]

\* tick(), step 6: manageAlliances draws two agents of status 'alive'
ManageAlliances ==
  /\ micro = << >>
  /\ emitted.allianceFormed + emitted.allianceBroken < MaxAllianceEvents
  /\ LET aliveAgents == {a \in DOMAIN agents : agents[a].status = "alive"}
     IN /\ Cardinality(aliveAgents) >= 2
        /\ \E agent1 \in aliveAgents : \E agent2 \in aliveAgents :
             LET m == manageAlliances(alliances, agents, agent1, agent2)
             IN /\ alliances' = m.alliances
                /\ emitted' = [emitted EXCEPT
                                 !.allianceFormed =
                                    IF m.event = "alliance-formed" THEN @ + 1 ELSE @,
                                 !.allianceBroken =
                                    IF m.event = "alliance-broken" THEN @ + 1 ELSE @]
  /\ UNCHANGED <<running, tickInterval, intervals, tickCount, agents, reqs,
                 serviceRequests, transactions, payments, ticks, waiting, micro,
                 updates, startCalls, payVars, breakerVars, cartelVars, giniCall,
                 decideVars, priceCall, adaptCall, historyVars, mirrorVars,
                 statsCall, serviceCall>>

\* the reputations of the agents when the engine manages alliances
AllianceReputations == {30, 50, 70}

\* an arena some cycles old, without an alliance
InitAlliance ==
  /\ \E reputation \in [Agents -> AllianceReputations] :
       agents = [a \in Agents |->
                   [BaseAgent(InitialBalance) EXCEPT !.reputation = reputation[a]]]
  /\ transactions = << >>
  /\ InitIdle
  /\ InitUnits

NextAlliance ==
  \/ ManageAlliances
  \/ Rate
  \/ Debit

SpecAlliance == InitAlliance /\ [][NextAlliance]_vars

\* ------------------------------------------------------- the stats report
\* the balances, in Map order, of the agents whose status is in statuses:
\* the argument handed to calculateGini
BalancesOf(ags, statuses) ==
  LET order == [i \in 1..NumAgents |-> i - 1]
      kept == Filter(order, {a \in DOMAIN ags : ags[a].status \in statuses})
  IN [i \in 1..Len(kept) |-> ags[kept[i]].balance]

\* ArenaEngine.getStats: alive are the agents of status 'alive', dead those
\* of status 'dead'; giniOver is the argument of calculateGini
getStats(ags, txs) ==
  [totalAgents |-> Cardinality(DOMAIN ags),
   aliveAgents |-> Cardinality({a \in DOMAIN ags : ags[a].status = "alive"}),
   deadAgents |-> Cardinality({a \in DOMAIN ags : ags[a].status = "dead"}),
   totalTransactions |-> Len(txs),
   giniOver |-> BalancesOf(ags, {"alive"})]

\* tick(), steps 9 and 10: recordSnapshot, whose alive are the agents not
\* dead, and emitStats, which emits getStats()
EmitStats ==
  /\ micro = << >>
  /\ statsCall' = <<[snapshot |-> BalanceSnapshot(agents, emitted.stats + 1),
                     snapshotGiniOver |-> BalancesOf(agents, {"alive", "critical"}),
                     stats |-> getStats(agents, transactions)]>>
  /\ emitted' = [emitted EXCEPT !.stats = @ + 1]
  /\ emitted.stats < MaxTicks
  /\ UNCHANGED <<running, tickInterval, intervals, tickCount, agents, reqs,
                 serviceRequests, transactions, payments, ticks, waiting, micro,
                 updates, startCalls, payVars, breakerVars, cartelVars, giniCall,
                 decideVars, priceCall, adaptCall, historyVars, mirrorVars,
                 alliances, serviceCall>>

InitStats == InitActor

NextStats ==
  \/ EmitStats
  \/ Credit
  \/ Debit

SpecStats == InitStats /\ [][NextStats]_vars

\* ------------------------------------------- the x402 service endpoint
\* X402Client.createPaymentRequired: accepts[0] of the challenge
createPaymentRequired(agentId, serviceType, price) ==
  [statusCode |-> 402,
   payTo |-> agentId,
   maxAmountRequired |-> DecStr(Lamports(price)),
   serviceType |-> serviceType]

\* agents.find((a) => a.type === serviceType && a.status !== 'dead'):
\* the first in Map order, NoAgent for undefined
Provider(ags, serviceType) ==
  LET c == Candidates(ags, serviceType)
  IN IF c = {} THEN NoAgent ELSE CHOOSE a \in c : \A b \in c : a <= b

\* what the PAYMENT-SIGNATURE header of a request can be: absent, not the
\* base64 of a JSON payment signature, or the payment signature in transit
HeaderKinds == {"absent", "malformed", "signed"}

\* GET /api/x402/service?type=serviceType with the given header, at time
\* now: the status of the response, and what it was answered from
GET(ags, serviceType, kind, header, now) ==
  LET provider == Provider(ags, serviceType)
      none == [status |-> 503, serviceType |-> serviceType,
               provider |-> NoAgent, price |-> 0,
               kind |-> kind, header |-> << >>, valid |-> FALSE]
  IN IF provider = NoAgent THEN none
     ELSE LET price == ags[provider].basePrice
              answer == [none EXCEPT !.provider = provider, !.price = price]
          IN IF kind = "absent"
             THEN [answer EXCEPT
                     !.status = createPaymentRequired(provider, serviceType,
                                                      price).statusCode]
             ELSE IF kind = "malformed" THEN [answer EXCEPT !.status = 400]
             ELSE LET settled == verifyAndSettle(header, now)
                  IN [answer EXCEPT !.header = <<header>>,
                                    !.valid = settled.valid,
                                    !.status = IF settled.valid THEN 200 ELSE 402]

\* the payment signatures a requester can send: one made by
\* createPaymentSignature, as it is or with one field of its authorization
\* replaced
Forgeries(ps) ==
  {ps}
    \cup {[ps EXCEPT !.authorization.to = v] : v \in Payees}
    \cup {[ps EXCEPT !.authorization.value = v] : v \in ValueStrings}
    \cup {[ps EXCEPT !.authorization.validBefore = v] : v \in TimeStrings}

\* a request arrives at the endpoint.  The handler changes nothing in the
\* arena or in the X402Client (verifyAndSettle stores nothing), so the
\* answer to one request says what every request is answered
Get ==
  /\ micro = << >>
  /\ serviceCall = << >>
  /\ \E serviceType \in TypeSet, kind \in HeaderKinds, now \in Times :
       IF kind = "signed"
       THEN \E from \in Payers, to \in Payees, amount \in Payments,
               nonce \in Nonces, signedAt \in Times :
              \E header \in Forgeries(createPaymentSignature(from, to, amount,
                                                             nonce, signedAt)) :
                serviceCall' = <<GET(agents, serviceType, kind, header, now)>>
       ELSE serviceCall' = <<GET(agents, serviceType, kind, << >>, now)>>
  /\ UNCHANGED <<engineVars, payVars, breakerVars, cartelVars, giniCall,
                 decideVars, priceCall, adaptCall, historyVars, mirrorVars,
                 alliances, statsCall>>

\* the endpoint beside an arena whose agents may die
NextService ==
  \/ Get
  \/ Debit

SpecService == Init /\ [][NextService]_vars

\* ------------------------------------------- the reputation of one agent
\* one agent of the arena, of any service type, some services old
InitReputation ==
  /\ \E a \in Agents :
       agents \in [{a} -> {[BaseAgent(InitialBalance) EXCEPT !.reputation = r] :
                             r \in Reputations}]
  /\ transactions = << >>
  /\ InitIdle
  /\ InitUnits

NextReputation ==
  \/ Rate
  \/ Serve
  \/ Scam

SpecReputation == InitReputation /\ [][NextReputation]_vars

\* ------------------------------------------------ the engine, agents of
\* earned reputation.  Every agent starts at 50 and gains 1 to 3 with every
\* service it delivers; the engine is taken up with each agent either at its
\* initial reputation or at one it has earned
ScamReputations == {50, 90}

\* the engine with USE_ANTHROPIC: a call to the reasoning provider made by
\* executeService may reject
NextAnthropic ==
  \/ Start
  \/ TimerFire
  \/ MatchRequests
  \/ AcceptReply
  \/ Decided
  \/ ExecReply
  \/ ExecFails
  \/ Completed
  \/ Failed
  \/ PostMatch
  \/ FinishTick

SpecAnthropic == Init /\ [][NextAnthropic]_vars

InitScam ==
  /\ \E reputation \in [Agents -> ScamReputations] :
       agents = [a \in Agents |->
                   [BaseAgent(InitialBalance) EXCEPT !.reputation = reputation[a]]]
  /\ transactions = << >>
  /\ InitIdle
  /\ InitUnits

NextScam ==
  \/ Start
  \/ TimerFire
  \/ MatchRequests
  \/ AcceptReply
  \/ Decided
  \/ ExecReply
  \/ Completed
  \/ PostMatch
  \/ FinishTick

SpecScam == InitScam /\ [][NextScam]_vars

\* ================================================================ claims
\* the total currency of the economy: the balances of the agents that are
\* not dead, and the residual of the dead agents not yet finalized
Total ==
  SumOver(Agents,
          [a \in Agents |->
             IF agents[a].status # "dead" THEN agents[a].balance
             ELSE IF agents[a].diedAt = 0 THEN Max(agents[a].balance, 0)
             ELSE 0])

\* the payments credited to agents for requests so far
Credited ==
  SumOver(1..Len(reqs), [r \in 1..Len(reqs) |-> reqs[r].credits * reqs[r].payment])

\* no tick() is in flight
BetweenCycles == micro = << >> /\ \A k \in TickSlots : ticks[k].pc = "idle"

\* C1, as stated: the total currency never increases from one cycle to the
\* next (no commission or referral is ever credited: referToAlly has no
\* caller), so between cycles it is at most the total of the initial state
TotalNeverIncreases ==
  BetweenCycles => Total <= NumAgents * InitialBalance

\* C1, amended: the total currency increases only in a step in which the
\* payment of a request is credited to the agent that served or scammed it
TotalGrowsOnlyByPayments ==
  [][Total' > Total => Credited' > Credited]_vars

\* C1 witness: payments were credited and a residual was redistributed
PaidAndRedistributed ==
  /\ Credited > 0
  /\ \E d \in Agents : emitted.balanceRedistributed[d] = 1
  /\ BetweenCycles

\* the agents finalized by a step
Finalized == {a \in Agents : agents[a].diedAt = 0 /\ agents'[a].diedAt # 0}

StatusIsThreshold ==
  \A a \in Agents : agents[a].status = updateStatus(agents[a].balance)

\* C4: an agent is finalized at most once: its diedAt, once set, never
\* changes, its residual is redistributed at most once and at most one
\* 'agent-died' is emitted for it
FinalizedOnce ==
  [][\A a \in Agents :
       /\ agents[a].diedAt # 0 => agents'[a].diedAt = agents[a].diedAt
       /\ emitted'.agentDied[a] <= 1
       /\ emitted'.balanceRedistributed[a] <= 1
       /\ emitted'.agentDied[a] = IF agents'[a].diedAt # 0 THEN 1 ELSE 0]_vars

\* C4 witness: an agent finalized during the first cycle is still dead
\* after the death scan of the second cycle
DeadThroughSecondScan ==
  \E a \in Agents :
    /\ agents[a].status = "dead"
    /\ agents[a].diedAt = 1
    /\ tickCount = 2
    /\ emitted.deathScans = 2
    /\ emitted.agentDied[a] = 1

\* C5: verifyAndSettle reports success iff the digest of the authorization's
\* payer, payee, amount and nonce is the carried digest and the time of the
\* call lies in [validAfter, validBefore]; so an authorization as signed at
\* time t settles exactly at the times t .. t + 30
SettlesIffDigestAndWindow ==
  settlement # << >> =>
    LET paymentSignature == wire[1]
        authorization == paymentSignature.authorization
        now == settlement[1].now
        result == settlement[1].result
        digestMatches ==
          paymentSignature.signature =
            Sha256(<<authorization.from, authorization.to, authorization.value,
                     authorization.nonce>>)
        validAfter == ParseInt(authorization.validAfter)
        validBefore == ParseInt(authorization.validBefore)
        inWindow == /\ validAfter # NaN
                    /\ validBefore # NaN
                    /\ validAfter <= now
                    /\ now <= validBefore
    IN /\ result.valid <=> (digestMatches /\ inWindow)
       /\ result.raw.success = result.valid
       /\ \A from \in Payers, to \in Payees, amount \in Payments,
             nonce \in Nonces, t \in Times :
            paymentSignature = createPaymentSignature(from, to, amount, nonce, t)
            => (result.valid <=> (t <= now /\ now <= t + ValidityWindow))

\* C5 witness: an authorization whose window was rewritten after signing
\* settles at the last second of the window it carries
SettledAtWindowEnd ==
  /\ settlement # << >>
  /\ settlement[1].result.valid
  /\ settlement[1].now = ParseInt(wire[1].authorization.validBefore)
  /\ settlement[1].now < ParseInt(wire[1].authorization.validAfter) + ValidityWindow

\* C6: every transaction of the ledger belongs to a request whose payment
\* was settled successfully, and its amount is the payment of that request
LedgerOnlyOnSettlement ==
  \A i \in 1..Len(transactions) :
    /\ payments[transactions[i].x402PaymentId].status = "completed"
    /\ transactions[i].amount = reqs[transactions[i].request].payment

\* C7: a request whose settlement failed is in status failed and its payment
\* was not credited to the assigned agent
FailedSettlementUndone ==
  \A r \in 1..Len(reqs) :
    reqs[r].settled = "failed" => reqs[r].status = "failed" /\ reqs[r].credits = 0

\* the requests of cycle k assigned to agent a and not yet completed
InFlight(k, a) ==
  {w.req : w \in {v \in waiting : v.pc = "exec" /\ v.tick = k /\ v.agent = a}}
    \cup {micro[i].req : i \in {j \in 1..Len(micro) :
                                  /\ micro[j].kind = "completed"
                                  /\ micro[j].tick = k
                                  /\ micro[j].agent = a}}

\* C8: within a cycle at most one request is in flight per agent
OneMatchPerActor ==
  \A k \in TickSlots : \A a \in Agents : Cardinality(InFlight(k, a)) <= 1

\* C9: at most one cycle executes at any time
OneCycleAtATime ==
  Cardinality({k \in TickSlots : ticks[k].pc # "idle"}) <= 1

Scheduled(k) ==
  \/ \E i \in 1..Len(micro) : micro[i].tick = k
  \/ \E w \in waiting : w.tick = k

NoCallOnceTripped ==
  [][(USE_KIMI /\ DEMO_MODE) => calls'.kimi = calls.kimi]_vars

CartelsHaveThreeAlive ==
  \A t \in TypeSet :
    /\ cartelPrices[t] # << >> <=> cartels[t] # {}
    /\ cartels[t] # {}
         => Cardinality({m \in cartels[t] : agents[m].status # "dead"}) >= 3

\* C15: in the step that forms a cartel, its members are exactly the agents
\* that agreed to join, three or more, and its price is the mean of their
\* proposed multipliers times the average amount of the recent transactions
\* of the service type
CartelPriceIsMeanTimesMarket ==
  [][\A t \in {x \in TypeSet : cartels[x] = {} /\ cartels'[x] # {}} :
       LET negotiations == negotiation'[1].negotiations
           joiners == Joiners(negotiations)
           sum == SumOver(joiners,
                          [i \in joiners |-> negotiations[i].proposedMultiplier])
           market == RecentAverage(transactions, t)
       IN /\ cartels'[t] = {negotiations[i].agentId : i \in joiners}
          /\ Cardinality(cartels'[t]) >= 3
          /\ RatEq(cartelPrices'[t][1],
                   Rat(market.num * sum, market.den * Cardinality(joiners) * 100))]_vars

\* C16: calculateGini returns a value in [0, 1]; it returns 0 for the empty
\* array, for an array of sum 0 and for an array of equal balances, and
\* (n - 1) / n for an array of n balances of which one is the whole sum
GiniInUnitInterval ==
  (giniCall # << >> /\ giniCall[1].result # << >>) =>
    LET values == giniCall[1].values
        gini == giniCall[1].result[1]
        n == Len(values)
        holders == {i \in 1..n : values[i] # FlZero}
    IN /\ FlLeq(FlZero, gini)
       /\ FlLeq(gini, FromInt(1))
       /\ n = 0 => gini = FlZero
       /\ holders = {} => gini = FlZero
       /\ (\A i, j \in 1..n : values[i] = values[j]) => gini = FlZero
       /\ Cardinality(holders) = 1 => gini = FlDiv(FromInt(n - 1), FromInt(n))

\* C17: the reputation of every agent lies in [0, 100] after every service
\* executed, every scam and every direct update
ReputationInRange ==
  \A a \in DOMAIN agents :
    agents[a].reputation >= 0 /\ agents[a].reputation <= 100

\* C17 witness: an agent that has scammed once, and nothing else, has
\* reputation 0: the penalty of 20 was cut off at 0
PenaltyCutOffAtZero ==
  \E a \in DOMAIN agents :
    /\ agents[a].reputation = 0
    /\ agents[a].servicesCompleted = 1
    /\ agents[a].earnings > 0
    /\ updates = 0

\* the agents other than d that are not dead: alive or critical
Survivors(ags, d) == {a \in Agents \ {d} : ags[a].status # "dead"}

\* C18: when a step finalizes a dead agent d of residual b > 0 and n >= 1
\* agents other than d are not dead, every one of these survivors, the
\* critical ones included, gains b/(2n), and one of them gains b/2 more
SurvivorsShare ==
  [][\A d \in Agents :
       (Finalized = {d} /\ agents[d].balance > 0 /\ Survivors(agents, d) # {})
       => LET b == agents[d].balance
              survivors == Survivors(agents, d)
              n == Cardinality(survivors)
              gain == [a \in Agents |-> agents'[a].balance - agents[a].balance]
          IN \E r \in survivors :
               \A a \in survivors :
                 2 * n * gain[a] = IF a = r THEN b * (n + 1) ELSE b]_vars

\* C19: a scam counts as a service completed by the agent, and the step in
\* which the engine reports the scam ('scam-detected') appends no
\* transaction to the ledger and emits no 'transaction'
NoLedgerEntryForScam ==
  [][/\ \A a \in Agents :
          (\E r \in DOMAIN reqs :
             /\ reqs[r].status = "pending" /\ reqs'[r].status = "in_progress"
             /\ reqs'[r].agentId = a
             /\ reqs'[r].credits > reqs[r].credits
             /\ agents'[a].reputation < agents[a].reputation)
          => agents'[a].servicesCompleted = agents[a].servicesCompleted + 1
     /\ emitted'.scamDetected > emitted.scamDetected
          => /\ transactions' = transactions
             /\ emitted'.transaction = emitted.transaction]_vars

\* agent a executes a scam in this step: a request goes to a with its
\* payment credited by executeScam
ExecutesScam(a) ==
  \E r \in DOMAIN reqs :
    /\ reqs[r].status = "pending" /\ reqs'[r].status = "in_progress"
    /\ reqs'[r].agentId = a
    /\ reqs'[r].credits > reqs[r].credits

\* C20: an agent that is dead, or whose reputation is above the high-trust
\* ceiling when the scam decision is taken, executes no scam
NoScamWhenIneligible ==
  [][\A a \in Agents :
       ExecutesScam(a) =>
         /\ agents[a].status # "dead"
         /\ agents[a].reputation <= HighTrustCeiling]_vars

\* C21: every call of shouldAcceptRequest that has returned has emitted
\* exactly one reasoning record, whichever path it took, and the stream
\* holds no other record
OneRecordPerDecision ==
  /\ acceptCall # << >> /\ acceptCall[1].pc = "returned"
       => Len(acceptCall[1].events) = 1
  /\ (IF acceptCall = << >> THEN TRUE ELSE acceptCall[1].pc = "returned")
       => Len(reasoning) = calls.made

\* C22: the record of a decision that the heuristic computed, after a
\* failed provider call or otherwise, carries the heuristic tag
HeuristicIsTagged ==
  (acceptCall # << >> /\ acceptCall[1].pc = "returned"
     /\ acceptCall[1].by = "heuristic")
  => \A i \in 1..Len(acceptCall[1].events) : acceptCall[1].events[i].heuristicTag

\* C23: when the Kimi provider resolves with a response that does not
\* parse, the decision is the heuristic's and the failure counter goes up
\* by one, as for a rejected call
MalformedCountsAsFailure ==
  [][(/\ acceptCall # << >>
      /\ acceptCall[1].pc = "kimi"
      /\ acceptCall'[1].response = "unparsable")
     => /\ acceptCall'[1].by = "heuristic"
        /\ acceptCall'[1].result =
             HeuristicAccept(acceptCall[1].ag, acceptCall[1].payment)
        /\ aiFailCount' = aiFailCount + 1]_vars

\* C24: the price that an agent of any class returns, for every pricing
\* mode, reputation and market price, lies in [minPrice, maxPrice] of its
\* strategy
PriceWithinStrategy ==
  (priceCall # << >> /\ priceCall[1].result # << >>) =>
    LET c == priceCall[1]
    IN /\ RatLeq(c.strategy.minPrice, c.result[1])
       /\ RatLeq(c.result[1], c.strategy.maxPrice)

\* C25: the pricing mode of an agent is always aggressive, balanced or
\* premium, and an analysis that does not parse to a change to one of
\* these three leaves the strategy as it was
PricingModeIsValid ==
  /\ [](adaptCall # << >> => adaptCall[1].ag.pricingModel \in PricingModels)
  /\ [][(/\ adaptCall # << >>
          /\ adaptCall[1].pc = "asked"
          /\ ~(/\ adaptCall'[1].analysis[1].parses
               /\ adaptCall'[1].analysis[1].change
               /\ adaptCall'[1].analysis[1].pricingModel \in PricingModels))
         => adaptCall'[1].ag = adaptCall[1].ag]_vars

\* the cycle in which request r was generated: every cycle generates
\* ReqPerTick requests
GeneratedIn(r) == ((r - 1) \div ReqPerTick) + 1

\* C26: the queue does not grow with the number of cycles: while no cycle
\* is in execution it holds no request of a cycle before the latest one, so
\* a request that was rejected, or had no candidate, is out of the queue
\* at the latest when the cycle after its own has completed
QueueDrains ==
  (\A k \in TickSlots : ticks[k].pc = "idle")
  => \A i \in 1..Len(serviceRequests) :
       GeneratedIn(serviceRequests[i]) >= tickCount

\* history holds the latest Len(history) of the n items pushed so far, in
\* the order in which they were pushed; id(item) is the item's number
LatestOf(history, n, id(_)) ==
  /\ Len(history) <= n
  /\ \A i \in 1..Len(history) : id(history[i]) = n - Len(history) + i

TxId(tx) == tx.x402PaymentId
StampOf(item) == item.timestamp

\* C27: when a cycle has completed (its snapshot is recorded) the ledger
\* holds at most 10000 transactions and the snapshot ring at most 200
\* snapshots, and an agent's event log always holds at most 100 events;
\* each holds the latest of its items in their original order
HistoriesBounded ==
  /\ [][logged'.snapshots > logged.snapshots
          => /\ Len(transactions') <= TransactionCap
             /\ LatestOf(transactions', logged'.transactions, TxId)
             /\ Len(balanceHistory') <= SnapshotCap
             /\ LatestOf(balanceHistory', logged'.snapshots, StampOf)]_vars
  /\ [](/\ Len(eventHistory) <= EventCap
        /\ LatestOf(eventHistory, logged.events, StampOf))

\* C27 witness: the 10001st transaction, the 201st snapshot and the 101st
\* event have been pushed and each history has been cut
EveryHistoryCut ==
  /\ logged.transactions = TransactionCap + 1
  /\ Len(transactions) = TransactionKeep
  /\ logged.snapshots = SnapshotCap + 1
  /\ Len(balanceHistory) = SnapshotCap
  /\ logged.events = EventCap + 1
  /\ Len(eventHistory) = EventCap

\* C28: once the snapshot of a cycle is recorded, no step begun in that
\* cycle changes a cartel's membership, an agent's balance or an agent's
\* price strategy; and the stats event is never emitted without the snapshot
SnapshotAfterSteps ==
  /\ [][~SnapshotDue
          => /\ cartels' = cartels
             /\ \A a \in DOMAIN agents :
                  /\ agents'[a].balance = agents[a].balance
                  /\ agents'[a].basePrice = agents[a].basePrice]_vars
  /\ [][emitted'.stats > emitted.stats
          => logged'.snapshots > logged.snapshots]_vars

\* a multiple of 25 lies in before+1..after
PassesMultiple(before, after) ==
  before \div AdaptationPeriod < after \div AdaptationPeriod

\* C29: a cycle runs the strategy adaptation exactly if the count of
\* completed transactions passed a multiple of 25 in it
AdaptsEvery25 ==
  [][tickCount' > tickCount
       => (ticks'[1].pc = "adapting"
             <=> PassesMultiple(logged.transactions, logged'.transactions))]_vars

\* the ledger without the mirror references
Unsigned(txs) == [i \in DOMAIN txs |-> [txs[i] EXCEPT !.solanaTxSignature = << >>]]

\* C30: a step in which a mirror call settles, with a signature or with a
\* failure, early or late, changes no request, no agent's balance or
\* reputation, nothing of the ledger but the mirror reference, and nothing of
\* the cycle's progress and events
MirrorChangesNoCore ==
  [][(\E i \in 1..Len(mirror) :
        mirror[i].outcome = "pending" /\ mirror'[i].outcome # "pending")
       => /\ reqs' = reqs
          /\ agents' = agents
          /\ Unsigned(transactions') = Unsigned(transactions)
          /\ payments' = payments
          /\ <<tickCount, ticks, micro, emitted>>' = <<tickCount, ticks, micro, emitted>>]_vars

\* C30 witness: a logTransaction has failed and its transaction is in the
\* ledger without a reference while another has succeeded, a logDeath has
\* failed and an updateStats has failed
MirrorFailuresSeen ==
  /\ \E i \in 1..Len(mirror) : \E j \in 1..Len(transactions) :
       /\ mirror[i].call = "logTransaction"
       /\ mirror[i].outcome = "rejected"
       /\ transactions[j].request = mirror[i].req
       /\ transactions[j].solanaTxSignature = << >>
       /\ reqs[mirror[i].req].status = "completed"
  /\ \E i \in 1..Len(mirror) :
       mirror[i].call = "logTransaction" /\ mirror[i].outcome = "resolved"
  /\ \E i \in 1..Len(mirror) :
       mirror[i].call = "logDeath" /\ mirror[i].outcome = "rejected"
  /\ \E i \in 1..Len(mirror) :
       mirror[i].call = "updateStats" /\ mirror[i].outcome = "rejected"

\* C31: the alliance relation is symmetric and irreflexive and links only
\* agents of different service types
AllianceRelation ==
  \A a \in Agents : \A b \in alliances[a] :
    /\ a \in alliances[b]
    /\ a # b
    /\ AgentType(a) # AgentType(b)

\* C31 witness: an alliance has been broken and another one stands
AllianceFormedAndBroken ==
  /\ emitted.allianceBroken > 0
  /\ \E a \in Agents : alliances[a] # {}

\* C32: an agent of status 'dead' is dead in every later state, is not
\* selected for a request, and gets no share of a redistribution
DeathIsPermanent ==
  [][\A a \in Agents :
       agents[a].status = "dead"
         => /\ agents'[a].status = "dead"
            /\ agents'[a].balance <= agents[a].balance
            /\ \A r \in 1..Len(reqs') :
                 (reqs'[r].agentId = a /\ reqs'[r].status = "in_progress")
                   => (r <= Len(reqs) /\ reqs[r].agentId = a)]_vars

\* C33: in a stats report aliveAgents + deadAgents = totalAgents, and the
\* report agrees with the snapshot of its cycle on the counts and on the
\* balances the Gini coefficient is computed over
StatsCountEveryAgent ==
  statsCall # << >>
    => /\ statsCall[1].stats.aliveAgents + statsCall[1].stats.deadAgents
            = statsCall[1].stats.totalAgents
       /\ statsCall[1].stats.aliveAgents = statsCall[1].snapshot.aliveCount
       /\ statsCall[1].stats.deadAgents = statsCall[1].snapshot.deadCount
       /\ statsCall[1].stats.giniOver = statsCall[1].snapshotGiniOver

\* C34: for every cartel in the registry a 'cartel-formed' event with its
\* service type, member count and price has been emitted, and every
\* 'cartel-formed' event is for a service type that had a cartel formed
CartelFormedIsEmitted ==
  /\ \A t \in TypeSet :
       cartels[t] # {}
         => \E i \in 1..Len(emitted.cartelFormed) :
              /\ emitted.cartelFormed[i].serviceType = t
              /\ emitted.cartelFormed[i].members = Cardinality(cartels[t])
              /\ <<emitted.cartelFormed[i].price>> = cartelPrices[t]
  /\ \A i \in 1..Len(emitted.cartelFormed) :
       emitted.cartelFormed[i].serviceType \in TypeSet

\* C35: the status of a request only moves forward, pending -> in_progress
\* -> (completed | failed): a completed or failed request keeps its status
\* and its agent for ever, an in_progress request never goes back to pending,
\* and an in_progress request has an agent assigned
StatusMovesForward ==
  [][\A r \in 1..Len(reqs) :
       /\ r <= Len(reqs')
       /\ reqs[r].status \in {"completed", "failed"} =>
            /\ reqs'[r].status = reqs[r].status
            /\ reqs'[r].agentId = reqs[r].agentId
       /\ reqs[r].status = "in_progress" => reqs'[r].status # "pending"
       /\ reqs'[r].status = "in_progress" => reqs'[r].agentId # NoAgent]_vars

\* the selections made and not yet decided: <<cycle, request, agent>> for
\* every callback of matchRequests between `candidates.sort(...)[0]` and the
\* statement after `await shouldAcceptRequest`
Selections(w, mq) ==
  {<<e.tick, e.req, e.agent>> : e \in {v \in w : v.pc = "accept"}}
    \cup {<<mq[i].tick, mq[i].req, mq[i].agent>> :
            i \in {j \in 1..Len(mq) : mq[j].kind = "decided"}}

\* C36: an agent selected for a request has the request's service type, is
\* not dead when it is selected and has the highest reputation of the agents
\* of that type that are not dead at that moment; and a request is assigned
\* only to the agent that was selected for it
AssignedToBestCandidate ==
  [][/\ \A sel \in Selections(waiting', micro') \ Selections(waiting, micro) :
          /\ AgentType(sel[3]) = reqs'[sel[2]].serviceType
          /\ agents[sel[3]].status # "dead"
          /\ \A b \in Agents :
               (AgentType(b) = AgentType(sel[3]) /\ agents[b].status # "dead")
                 => agents[b].reputation <= agents[sel[3]].reputation
    /\ \A r \in 1..Len(reqs) :
           reqs'[r].agentId # reqs[r].agentId =>
             \E sel \in Selections(waiting, micro) :
               sel[2] = r /\ sel[3] = reqs'[r].agentId]_vars

\* C36 witness: a request is assigned to an agent that is not the first of
\* its type in Map order, while an earlier agent of the type is not dead
AssignedByReputation ==
  \E r \in 1..Len(reqs) : \E b \in Agents :
    /\ reqs[r].agentId # NoAgent
    /\ b < reqs[r].agentId
    /\ AgentType(b) = reqs[r].serviceType
    /\ agents[b].status # "dead"
    /\ agents[b].reputation < agents[reqs[r].agentId].reputation

\* C37: a request is executed at most once: its payment is credited at most
\* once and the ledger holds at most one transaction for it
ExecutedAtMostOnce ==
  \A r \in 1..Len(reqs) :
    /\ reqs[r].credits <= 1
    /\ Cardinality({i \in 1..Len(transactions) : transactions[i].request = r}) <= 1

\* C38: no step of the engine decreases the balance of an agent: every step
\* other than a debit made from outside the engine (which alone counts in
\* `updates`) leaves every balance as it was or higher
BalancesNeverDecrease ==
  [][updates' = updates =>
       \A a \in Agents : agents'[a].balance >= agents[a].balance]_vars

\* C38 witness: balances were changed by a served request, by a scam and by
\* the redistribution of a residual
CreditedScammedRedistributed ==
  /\ \E r \in 1..Len(reqs) : reqs[r].credits > 0 /\ reqs[r].status = "completed"
  /\ emitted.scamDetected > 0
  /\ \E d \in Agents : emitted.balanceRedistributed[d] = 1
  /\ \E a \in Agents : agents[a].balance > InitialBalance

\* C39: a request that ends failed has changed nothing: its payment was
\* never credited to an agent (executeService and executeScam change the
\* balance, the reputation and servicesCompleted only together with that
\* credit) and the ledger holds no transaction for it
FailedLeavesNoTrace ==
  \A r \in 1..Len(reqs) :
    reqs[r].status = "failed" =>
      /\ reqs[r].credits = 0
      /\ \A i \in 1..Len(transactions) : transactions[i].request # r

\* C40: the endpoint answers 200 only to a payment signature that settles
\* and whose authorization pays the provider named in the challenge
\* (payTo) at least the amount of the challenge (maxAmountRequired);
\* every other request is answered with 402 or 400
ServiceOnlyWhenPaid ==
  serviceCall # << >> =>
    LET c == serviceCall[1]
    IN IF c.status = 200
       THEN /\ c.valid
            /\ LET authorization == c.header[1].authorization
                   required == createPaymentRequired(c.provider, c.serviceType, c.price)
               IN /\ authorization.to = required.payTo
                  /\ ParseInt(authorization.value) # NaN
                  /\ ParseInt(authorization.value) >=
                       ParseInt(required.maxAmountRequired)
       ELSE c.status \in {402, 400}


============================================================================
